---------------------------- MODULE Spec2Model ----------------------------
(***************************************************************************)
(* The tax rule engine of "Analyste Fiscal" (config/tax_rules.py): the     *)
(* rule store (an insertion-ordered dict of TaxRule keyed by name), the    *)
(* filtered query get_active_rules, the sales-tax calculators and the      *)
(* condition matcher _check_conditions.                                    *)
(*                                                                         *)
(* Python values are modelled by tagged records, a Decimal by its          *)
(* coefficient and exponent (value = c * 10^e, as decimal.Decimal holds    *)
(* it), a str by the sequence of its characters, a date by its proleptic   *)
(* ordinal (date.toordinal()), a dict by the sequence of its items in      *)
(* insertion order.  Decimal precision is the context default of 28        *)
(* digits; every coefficient of the model stays far below it, so no        *)
(* operation of the model rounds.                                          *)
(***************************************************************************)
EXTENDS Integers, Sequences, FiniteSets, TLC

VARIABLES rules,   \* self.rules: the items of the dict, in insertion order
          today,   \* date.today(), as an ordinal
          writes,  \* number of mutating calls made so far (bounded)
          call,    \* the last call made on the engine: [op, args]
          ret,     \* what that call returned or raised: [status, val]
          file,    \* the content of the file at the path of export/import
          memo,    \* an earlier call the caller kept: [call, ret, rules, today]
          threads  \* overlapping calls on the global engine: the TaxRule
                   \* objects, the dict's references and each thread's place

vars == <<rules, today, writes, call, ret, file, memo, threads>>

(***************************************************************************)
(* Bounds of the model.                                                    *)
(***************************************************************************)
\* at most this many mutating calls (add_rule, update_rule) in a behaviour
MaxWrites == 3
\* the current date advances at most this many days
MaxDays == 2

(***************************************************************************)
(* Python values.                                                          *)
(***************************************************************************)
PyNone == [t |-> "none", c |-> 0, e |-> 0, s |-> <<>>]
PyBool(b) == [t |-> "bool", c |-> IF b THEN 1 ELSE 0, e |-> 0, s |-> <<>>]
PyInt(n) == [t |-> "int", c |-> n, e |-> 0, s |-> <<>>]
\* the float whose repr() is the decimal literal c * 10^e (str(0.05) = "0.05")
PyFloat(c, e) == [t |-> "float", c |-> c, e |-> e, s |-> <<>>]
PyDecimal(c, e) == [t |-> "Decimal", c |-> c, e |-> e, s |-> <<>>]
PyStr(chars) == [t |-> "str", c |-> 0, e |-> 0, s |-> chars]

\* an absent argument or attribute that is otherwise a str (jurisdiction=None)
NoStr == "<None>"
\* an absent date (effective_date = None); date ordinals start at 1
NoDate == 0

\* bool(x) for a str or None argument
Truthy(x) == x \notin {NoStr, ""}
\* bool(d) for a date or None: every date object is true
DateSet(d) == d # NoDate

(***************************************************************************)
(* decimal.Decimal arithmetic on [c, e] (exact: result exponent is the     *)
(* sum for *, the minimum for + and -).                                    *)
(***************************************************************************)
RECURSIVE Pow10(_)
Pow10(n) == IF n <= 0 THEN 1 ELSE 10 * Pow10(n - 1)

Dec(c, e) == [c |-> c, e |-> e]
DecMin(a, b) == IF a < b THEN a ELSE b
\* the coefficient of d at the (smaller or equal) exponent e
DecAt(d, e) == d.c * Pow10(d.e - e)
DecMul(a, b) == Dec(a.c * b.c, a.e + b.e)
DecAdd(a, b) ==
    LET e == DecMin(a.e, b.e) IN Dec(DecAt(a, e) + DecAt(b, e), e)
\* Decimal.__eq__ / __lt__: numeric, whatever the exponents
DecEq(a, b) == LET e == DecMin(a.e, b.e) IN DecAt(a, e) = DecAt(b, e)
DecLt(a, b) == LET e == DecMin(a.e, b.e) IN DecAt(a, e) < DecAt(b, e)

IsNumber(v) == v.t \in {"int", "float", "Decimal", "bool"}
NumOf(v) == Dec(v.c, v.e)

(***************************************************************************)
(* TaxRule and the default rules.                                          *)
(***************************************************************************)
\* rule.conditions: None, or a dict given by its items <<key, constraint>>
NoConditions == [none |-> TRUE, items |-> <<>>]
Conditions(items) == [none |-> FALSE, items |-> items]

TaxRule(name, description, jurisdiction, category, value, conditions, effective_date, expiry_date, is_active) ==
    [name |-> name, description |-> description,
     jurisdiction |-> jurisdiction, category |-> category, value |-> value,
     conditions |-> conditions, effective_date |-> effective_date,
     expiry_date |-> expiry_date, is_active |-> is_active]

\* date(2008, 1, 1), date(2013, 1, 1), date(2020, 1, 1) as ordinals
D2008 == 733042
D2013 == 734869
D2020 == 737425

Chars_business == <<"b", "u", "s", "i", "n", "e", "s", "s">>
Chars_tech_startup ==
    <<"t", "e", "c", "h", "_", "s", "t", "a", "r", "t", "u", "p">>
Chars_gt0 == <<">", "0">>
Chars_lt100000 == <<"<", "1", "0", "0", "0", "0", "0">>

\* dict item order of self.rules: the order of the first add_rule of a name
RECURSIVE IndexOf(_, _, _)
IndexOf(rs, name, i) ==
    IF i > Len(rs) THEN 0
    ELSE IF rs[i].name = name THEN i ELSE IndexOf(rs, name, i + 1)

\* add_rule keeping the rule already stored under the name
add_rule_first_wins(rs, rule) ==
    IF \E i \in 1..Len(rs) : rs[i].name = rule.name THEN rs
    ELSE Append(rs, rule)

\* self.rules[rule.name] = rule
add_rule(rs, rule) ==
    LET i == IndexOf(rs, rule.name, 1) IN
    IF i = 0 THEN Append(rs, rule) ELSE [rs EXCEPT ![i] = rule]

\* self.rules.get(name): the rule, or None
NoRule == [name |-> NoStr]
get_rule(rs, name) ==
    LET i == IndexOf(rs, name, 1) IN IF i = 0 THEN NoRule ELSE rs[i]

RECURSIVE AddAll(_, _, _)
AddAll(rs, new, i) ==
    IF i > Len(new) THEN rs ELSE AddAll(add_rule(rs, new[i]), new, i + 1)

DefaultRuleList == <<
    TaxRule("TPS_Rate", "Taux de TPS", "CA", "rate", PyFloat(5, -2),
            NoConditions, D2008, NoDate, TRUE),
    TaxRule("TVQ_Rate", "Taux de TVQ", "QC", "rate", PyFloat(9975, -5),
            NoConditions, D2013, NoDate, TRUE),
    TaxRule("Small_Business_Threshold", "Seuil pour petite entreprise",
            "both", "threshold", PyFloat(300000, -1),
            NoConditions, D2020, NoDate, TRUE),
    TaxRule("QST_Registration_Threshold", "Seuil d'inscription TVQ",
            "QC", "threshold", PyFloat(300000, -1),
            NoConditions, D2020, NoDate, TRUE),
    TaxRule("Business_Expense_Deduction", "Deduction depenses d'entreprise",
            "both", "deduction", PyFloat(10, -1),
            Conditions(<< <<"expense_type", PyStr(Chars_business)>>,
                          <<"documented", PyBool(TRUE)>> >>),
            NoDate, NoDate, TRUE),
    TaxRule("Home_Office_Deduction", "Deduction bureau a domicile",
            "both", "deduction", PyFloat(25, -2),
            Conditions(<< <<"home_office_percentage", PyStr(Chars_gt0)>>,
                          <<"exclusive_use", PyBool(TRUE)>> >>),
            NoDate, NoDate, TRUE),
    TaxRule("SRED_Credit", "Credit d'impot pour R&D",
            "both", "credit", PyFloat(35, -2),
            Conditions(<< <<"sred_eligible", PyBool(TRUE)>>,
                          <<"documented", PyBool(TRUE)>> >>),
            NoDate, NoDate, TRUE),
    TaxRule("Digital_Media_Credit_QC", "Credit medias numeriques QC",
            "QC", "credit", PyFloat(24, -2),
            Conditions(<< <<"digital_media_eligible", PyBool(TRUE)>>,
                          <<"qc_resident", PyBool(TRUE)>> >>),
            NoDate, NoDate, TRUE),
    TaxRule("Tech_Startup_Deduction", "Deduction startup technologique",
            "both", "deduction", PyFloat(15, -2),
            Conditions(<< <<"company_type", PyStr(Chars_tech_startup)>>,
                          <<"revenue", PyStr(Chars_lt100000)>> >>),
            NoDate, NoDate, TRUE) >>

\* __init__: self.rules = {} then load_default_rules()
load_default_rules == AddAll(<<>>, DefaultRuleList, 1)

(***************************************************************************)
(* Rule store queries.                                                     *)
(***************************************************************************)
\* RuleIsListed without the is_active test
RuleIsListed_ignores_is_active(rule, jurisdiction, category, day) ==
    /\ ~(Truthy(jurisdiction) /\ rule.jurisdiction \notin {jurisdiction, "both"})
    /\ ~(Truthy(category) /\ rule.category # category)
    /\ ~(DateSet(rule.effective_date) /\ day < rule.effective_date)
    /\ ~(DateSet(rule.expiry_date) /\ day > rule.expiry_date)

\* RuleIsListed with the jurisdiction compared for equality only
RuleIsListed_exact_jurisdiction(rule, jurisdiction, category, day) ==
    /\ rule.is_active
    /\ ~(Truthy(jurisdiction) /\ rule.jurisdiction # jurisdiction)
    /\ ~(Truthy(category) /\ rule.category # category)
    /\ ~(DateSet(rule.effective_date) /\ day < rule.effective_date)
    /\ ~(DateSet(rule.expiry_date) /\ day > rule.expiry_date)

\* RuleIsListed with the expiry day itself excluded
RuleIsListed_expiry_exclusive(rule, jurisdiction, category, day) ==
    /\ rule.is_active
    /\ ~(Truthy(jurisdiction) /\ rule.jurisdiction \notin {jurisdiction, "both"})
    /\ ~(Truthy(category) /\ rule.category # category)
    /\ ~(DateSet(rule.effective_date) /\ day < rule.effective_date)
    /\ ~(DateSet(rule.expiry_date) /\ day >= rule.expiry_date)

\* the body of the loop of get_active_rules: TRUE iff no `continue` is taken
RuleIsListed(rule, jurisdiction, category, day) ==
    /\ rule.is_active
    /\ ~(Truthy(jurisdiction) /\ rule.jurisdiction \notin {jurisdiction, "both"})
    /\ ~(Truthy(category) /\ rule.category # category)
    /\ ~(DateSet(rule.effective_date) /\ day < rule.effective_date)
    /\ ~(DateSet(rule.expiry_date) /\ day > rule.expiry_date)

\* the list built by iterating self.rules.values() in dict order
get_active_rules(rs, jurisdiction, category, day) ==
    SelectSeq(rs, LAMBDA rule: RuleIsListed(rule, jurisdiction, category, day))

\* update_rule assigning effective_date whether one is given or not
update_rule_always_sets_date(rs, rule_name, new_value, effective_date) ==
    [i \in 1..Len(rs) |->
        IF rs[i].name = rule_name
        THEN [rs[i] EXCEPT !.value = new_value,
                           !.effective_date = effective_date]
        ELSE rs[i]]

\* update_rule: a no-op on an unknown name; effective_date only if truthy
update_rule(rs, rule_name, new_value, effective_date) ==
    LET i == IndexOf(rs, rule_name, 1) IN
    IF i = 0 THEN rs
    ELSE [rs EXCEPT ![i] =
            [@ EXCEPT !.value = new_value,
                      !.effective_date =
                          IF DateSet(effective_date) THEN effective_date ELSE @]]

(***************************************************************************)
(* Results of a call: a returned value, or the exception raised.           *)
(***************************************************************************)
Return(v) == [status |-> "ok", val |-> v]
Raise(exc) == [status |-> exc, val |-> <<>>]

(***************************************************************************)
(* str -> number conversions.                                              *)
(***************************************************************************)
DigitChars == {"0", "1", "2", "3", "4", "5", "6", "7", "8", "9"}
DigitValue(ch) ==
    CASE ch = "0" -> 0 [] ch = "1" -> 1 [] ch = "2" -> 2 [] ch = "3" -> 3
      [] ch = "4" -> 4 [] ch = "5" -> 5 [] ch = "6" -> 6 [] ch = "7" -> 7
      [] ch = "8" -> 8 [] ch = "9" -> 9

RECURSIVE DigitsValue(_, _, _)
DigitsValue(chars, i, acc) ==
    IF i > Len(chars) THEN acc
    ELSE DigitsValue(chars, i + 1, 10 * acc + DigitValue(chars[i]))

\* float(text) for a text of decimal digits; any other text of the model
\* (empty, letters) is one float() rejects with ValueError
ParseFloat(chars) ==
    IF Len(chars) > 0 /\ \A i \in 1..Len(chars) : chars[i] \in DigitChars
    THEN [ok |-> TRUE, num |-> Dec(DigitsValue(chars, 1, 0), 0)]
    ELSE [ok |-> FALSE, num |-> Dec(0, 0)]

\* Decimal(str(value)): str() of an int, float or Decimal is its literal,
\* which Decimal() reads back exactly; a str is read as ParseFloat reads it;
\* "None", "True", "False" and other texts raise decimal.InvalidOperation
DecimalOfStr(value) ==
    IF value.t \in {"int", "float", "Decimal"}
    THEN [ok |-> TRUE, num |-> NumOf(value)]
    ELSE IF value.t = "str" THEN ParseFloat(value.s)
    ELSE [ok |-> FALSE, num |-> Dec(0, 0)]

(***************************************************************************)
(* Sales tax calculators.                                                  *)
(***************************************************************************)
TaxCalculation(base_amount, tax_amount, rate_applied, net_amount, jurisdiction) ==
    [base_amount |-> base_amount, tax_amount |-> tax_amount,
     rate_applied |-> rate_applied, deductions |-> <<>>, credits |-> <<>>,
     net_amount |-> net_amount, jurisdiction |-> jurisdiction]

\* calculate_gst reading the rate rule before the zero-rated test
calculate_gst_rule_first(rs, amount, is_zero_rated) ==
    LET rule == get_rule(rs, "TPS_Rate") IN
    IF rule.name = NoStr THEN Raise("AttributeError")
    ELSE IF is_zero_rated
    THEN Return(TaxCalculation(amount, Dec(0, 0), PyFloat(0, -1), amount, "CA"))
    ELSE LET rate == DecimalOfStr(rule.value)
             tax_amount == DecMul(amount, rate.num)
         IN IF ~rate.ok THEN Raise("InvalidOperation")
            ELSE Return(TaxCalculation(amount, tax_amount, rule.value,
                                       DecAdd(amount, tax_amount), "CA"))

\* calculate_gst applying the rate of a federal rule only
calculate_gst_federal_rule_only(rs, amount, is_zero_rated) ==
    IF is_zero_rated
    THEN Return(TaxCalculation(amount, Dec(0, 0), PyFloat(0, -1), amount, "CA"))
    ELSE LET rule == get_rule(rs, "TPS_Rate") IN
         IF rule.name = NoStr THEN Raise("AttributeError")
         ELSE IF rule.jurisdiction \notin {"CA", "both"}
         THEN Return(TaxCalculation(amount, Dec(0, 0), PyFloat(0, -1),
                                    amount, "CA"))
         ELSE LET gst_rate == rule.value
                  rate == DecimalOfStr(gst_rate)
                  tax_amount == DecMul(amount, rate.num)
              IN IF ~rate.ok THEN Raise("InvalidOperation")
                 ELSE Return(TaxCalculation(amount, tax_amount, gst_rate,
                                            DecAdd(amount, tax_amount), "CA"))

calculate_gst(rs, amount, is_zero_rated) ==
    IF is_zero_rated
    THEN Return(TaxCalculation(amount, Dec(0, 0), PyFloat(0, -1), amount, "CA"))
    ELSE LET rule == get_rule(rs, "TPS_Rate") IN
         IF rule.name = NoStr THEN Raise("AttributeError")
         ELSE LET gst_rate == rule.value
                  rate == DecimalOfStr(gst_rate)
                  tax_amount == DecMul(amount, rate.num)
              IN IF ~rate.ok THEN Raise("InvalidOperation")
                 ELSE Return(TaxCalculation(amount, tax_amount, gst_rate,
                                            DecAdd(amount, tax_amount), "CA"))

\* calculate_qst returning the base amount as net_amount
calculate_qst_net_is_base(rs, amount, is_zero_rated) ==
    IF is_zero_rated
    THEN Return(TaxCalculation(amount, Dec(0, 0), PyFloat(0, -1), amount, "QC"))
    ELSE LET rule == get_rule(rs, "TVQ_Rate") IN
         IF rule.name = NoStr THEN Raise("AttributeError")
         ELSE LET rate == DecimalOfStr(rule.value)
                  tax_amount == DecMul(amount, rate.num)
              IN IF ~rate.ok THEN Raise("InvalidOperation")
                 ELSE Return(TaxCalculation(amount, tax_amount, rule.value,
                                            amount, "QC"))

calculate_qst(rs, amount, is_zero_rated) ==
    IF is_zero_rated
    THEN Return(TaxCalculation(amount, Dec(0, 0), PyFloat(0, -1), amount, "QC"))
    ELSE LET rule == get_rule(rs, "TVQ_Rate") IN
         IF rule.name = NoStr THEN Raise("AttributeError")
         ELSE LET qst_rate == rule.value
                  rate == DecimalOfStr(qst_rate)
                  tax_amount == DecMul(amount, rate.num)
              IN IF ~rate.ok THEN Raise("InvalidOperation")
                 ELSE Return(TaxCalculation(amount, tax_amount, qst_rate,
                                            DecAdd(amount, tax_amount), "QC"))

\* calculate_combined_taxes leaving the QST out of total_amount
calculate_combined_taxes_total_without_qst(rs, amount, is_zero_rated) ==
    LET gst_calc == calculate_gst(rs, amount, is_zero_rated)
        qst_calc == calculate_qst(rs, amount, is_zero_rated)
    IN IF gst_calc.status # "ok" THEN gst_calc
       ELSE IF qst_calc.status # "ok" THEN qst_calc
       ELSE Return([gst |-> gst_calc.val, qst |-> qst_calc.val,
                    total_tax |-> DecAdd(gst_calc.val.tax_amount,
                                         qst_calc.val.tax_amount),
                    total_amount |-> DecAdd(amount, gst_calc.val.tax_amount)])

\* d without the trailing zeros of its coefficient (Decimal.normalize)
RECURSIVE DecNormalize(_)
DecNormalize(d) ==
    IF d.c # 0 /\ d.c % 10 = 0 THEN DecNormalize(Dec(d.c \div 10, d.e + 1))
    ELSE d

\* calculate_combined_taxes charging the QST on the amount plus the GST
calculate_combined_taxes_cascaded(rs, amount, is_zero_rated) ==
    LET gst_calc == calculate_gst(rs, amount, is_zero_rated)
        qst_calc == IF gst_calc.status # "ok" THEN gst_calc
                    ELSE calculate_qst(rs, DecNormalize(gst_calc.val.net_amount),
                                       is_zero_rated)
    IN IF gst_calc.status # "ok" THEN gst_calc
       ELSE IF qst_calc.status # "ok" THEN qst_calc
       ELSE Return([gst |-> gst_calc.val, qst |-> qst_calc.val,
                    total_tax |-> DecAdd(gst_calc.val.tax_amount,
                                         qst_calc.val.tax_amount),
                    total_amount |-> DecAdd(DecAdd(amount,
                                                   gst_calc.val.tax_amount),
                                            qst_calc.val.tax_amount)])

calculate_combined_taxes(rs, amount, is_zero_rated) ==
    LET gst_calc == calculate_gst(rs, amount, is_zero_rated)
        qst_calc == calculate_qst(rs, amount, is_zero_rated)
    IN IF gst_calc.status # "ok" THEN gst_calc
       ELSE IF qst_calc.status # "ok" THEN qst_calc
       ELSE Return([gst |-> gst_calc.val, qst |-> qst_calc.val,
                    total_tax |-> DecAdd(gst_calc.val.tax_amount,
                                         qst_calc.val.tax_amount),
                    total_amount |-> DecAdd(DecAdd(amount,
                                                   gst_calc.val.tax_amount),
                                            qst_calc.val.tax_amount)])

(***************************************************************************)
(* Condition matcher.                                                      *)
(***************************************************************************)
\* data[key] != value on Python values: numbers (bool included) compare by
\* value across types, strs by content, None only equals None
PyEq(a, b) ==
    IF IsNumber(a) /\ IsNumber(b) THEN DecEq(NumOf(a), NumOf(b))
    ELSE a.t = b.t /\ a.s = b.s

StartsWith(value, ch) ==
    value.t = "str" /\ Len(value.s) > 0 /\ value.s[1] = ch

\* PairOutcome passing over a field the record does not hold
PairOutcome_skips_missing(data, key, value) ==
    IF key \notin DOMAIN data THEN "next"
    ELSE IF StartsWith(value, ">")
    THEN LET threshold == ParseFloat(Tail(value.s)) IN
         IF ~threshold.ok THEN "ValueError"
         ELSE IF ~IsNumber(data[key]) THEN "False"
         ELSE IF ~DecLt(threshold.num, NumOf(data[key])) THEN "False"
         ELSE "next"
    ELSE IF StartsWith(value, "<")
    THEN LET threshold == ParseFloat(Tail(value.s)) IN
         IF ~threshold.ok THEN "ValueError"
         ELSE IF ~IsNumber(data[key]) THEN "False"
         ELSE IF ~DecLt(NumOf(data[key]), threshold.num) THEN "False"
         ELSE "next"
    ELSE IF ~PyEq(data[key], value) THEN "False"
    ELSE "next"

\* one turn of the loop of _check_conditions on the item (key, value):
\* "next" (falls through to the next item), "False" (return False) or the
\* exception float() raises
PairOutcome(data, key, value) ==
    IF key \notin DOMAIN data THEN "False"
    ELSE IF StartsWith(value, ">")
    THEN LET threshold == ParseFloat(Tail(value.s)) IN
         IF ~threshold.ok THEN "ValueError"
         ELSE IF ~IsNumber(data[key]) THEN "False"
         ELSE IF ~DecLt(threshold.num, NumOf(data[key])) THEN "False"
         ELSE "next"
    ELSE IF StartsWith(value, "<")
    THEN LET threshold == ParseFloat(Tail(value.s)) IN
         IF ~threshold.ok THEN "ValueError"
         ELSE IF ~IsNumber(data[key]) THEN "False"
         ELSE IF ~DecLt(NumOf(data[key]), threshold.num) THEN "False"
         ELSE "next"
    ELSE IF ~PyEq(data[key], value) THEN "False"
    ELSE "next"

RECURSIVE CheckItems(_, _, _)
CheckItems(data, items, i) ==
    IF i > Len(items) THEN Return(TRUE)
    ELSE LET outcome == PairOutcome(data, items[i][1], items[i][2]) IN
         IF outcome = "next" THEN CheckItems(data, items, i + 1)
         ELSE IF outcome = "False" THEN Return(FALSE)
         ELSE Raise(outcome)

\* `if not conditions: return True` covers None and the empty dict
_check_conditions(data, conditions) ==
    IF conditions.none \/ Len(conditions.items) = 0 THEN Return(TRUE)
    ELSE CheckItems(data, conditions.items, 1)

(***************************************************************************)
(* Deductions and credits of the engine.                                   *)
(***************************************************************************)
\* the dict appended for a rule whose conditions the item meets
AppliedRule(rule, applied_amount) ==
    [rule |-> rule.name, description |-> rule.description,
     amount |-> applied_amount, rate |-> rule.value]

\* ApplyRules leaving the inner loop at the first rule that matches an item
RECURSIVE ApplyRules_first_match_only(_, _, _, _, _, _)
ApplyRules_first_match_only(amount, items, rule_list, i, k, acc) ==
    IF i > Len(items) THEN Return(acc)
    ELSE IF k > Len(rule_list)
    THEN ApplyRules_first_match_only(amount, items, rule_list, i + 1, 1, acc)
    ELSE LET rule == rule_list[k]
             met == _check_conditions(items[i], rule.conditions)
             rate == DecimalOfStr(rule.value)
         IN IF met.status # "ok" THEN met
            ELSE IF ~met.val
            THEN ApplyRules_first_match_only(amount, items, rule_list,
                                             i, k + 1, acc)
            ELSE IF ~rate.ok THEN Raise("InvalidOperation")
            ELSE ApplyRules_first_match_only(amount, items, rule_list,
                     i + 1, 1,
                     Append(acc, AppliedRule(rule, DecMul(amount, rate.num))))

\* the two nested loops shared by apply_deductions and apply_credits:
\* `for item in items: for rule in rule_list:`, from item i and rule k on,
\* with acc the list built so far
RECURSIVE ApplyRules(_, _, _, _, _, _)
ApplyRules(amount, items, rule_list, i, k, acc) ==
    IF i > Len(items) THEN Return(acc)
    ELSE IF k > Len(rule_list)
    THEN ApplyRules(amount, items, rule_list, i + 1, 1, acc)
    ELSE LET rule == rule_list[k]
             met == _check_conditions(items[i], rule.conditions)
             rate == DecimalOfStr(rule.value)
         IN IF met.status # "ok" THEN met
            ELSE IF ~met.val
            THEN ApplyRules(amount, items, rule_list, i, k + 1, acc)
            ELSE IF ~rate.ok THEN Raise("InvalidOperation")
            ELSE ApplyRules(amount, items, rule_list, i, k + 1,
                     Append(acc, AppliedRule(rule, DecMul(amount, rate.num))))

\* the base of every deduction is the `amount` argument
apply_deductions(rs, amount, expenses, day) ==
    ApplyRules(amount, expenses,
               get_active_rules(rs, NoStr, "deduction", day), 1, 1, <<>>)

\* the base of every credit is the `tax_amount` argument
apply_credits(rs, tax_amount, eligible_expenses, day) ==
    ApplyRules(tax_amount, eligible_expenses,
               get_active_rules(rs, NoStr, "credit", day), 1, 1, <<>>)

(***************************************************************************)
(* Transactions: dicts of Python values, and dict.get.                     *)
(***************************************************************************)
Chars_revenue == <<"r", "e", "v", "e", "n", "u", "e">>
Chars_expense == <<"e", "x", "p", "e", "n", "s", "e">>
Chars_transfer == <<"t", "r", "a", "n", "s", "f", "e", "r">>
Chars_research == <<"r", "e", "s", "e", "a", "r", "c", "h">>
Chars_development ==
    <<"d", "e", "v", "e", "l", "o", "p", "m", "e", "n", "t">>
Chars_rd == <<"r", "d">>
Chars_digital_media ==
    <<"d", "i", "g", "i", "t", "a", "l", "_", "m", "e", "d", "i", "a">>
Chars_rent == <<"r", "e", "n", "t">>

\* d.get(key, default)
Get(d, key, default) == IF key \in DOMAIN d THEN d[key] ELSE default
\* v in [..]: equal to some element of the list
PyIn(v, list) == \E k \in 1..Len(list) : PyEq(v, list[k])

DecNeg(a) == Dec(0 - a.c, a.e)
DecSub(a, b) == DecAdd(a, DecNeg(b))

\* float(d) of a Decimal, held as the literal repr() prints: a decimal of
\* at most 15 significant digits is the shortest literal of its nearest
\* double, so the literal is d without its trailing zeros, with one
\* fractional digit at least (float(Decimal('50.000')) is 50.0)
RECURSIVE StripZeros(_)
StripZeros(d) ==
    IF d.c # 0 /\ d.e < -1 /\ d.c % 10 = 0
    THEN StripZeros(Dec(d.c \div 10, d.e + 1))
    ELSE d

FloatOfDecimal(d) ==
    IF d.c = 0 THEN PyFloat(0, -1)
    ELSE IF d.e >= 0 THEN PyFloat(d.c * Pow10(d.e + 1), -1)
    ELSE LET s == StripZeros(d) IN PyFloat(s.c, s.e)

(***************************************************************************)
(* Dates: ordinal <-> (year, month, day), as datetime.date computes them.  *)
(***************************************************************************)
IsLeap(y) == y % 4 = 0 /\ (y % 100 # 0 \/ y % 400 = 0)
DaysInMonth(y, m) ==
    IF m = 2 THEN (IF IsLeap(y) THEN 29 ELSE 28)
    ELSE IF m \in {4, 6, 9, 11} THEN 30 ELSE 31

RECURSIVE DaysBeforeMonth(_, _)
DaysBeforeMonth(y, m) ==
    IF m <= 1 THEN 0 ELSE DaysBeforeMonth(y, m - 1) + DaysInMonth(y, m - 1)

DaysBeforeYear(y) ==
    LET p == y - 1 IN p * 365 + (p \div 4) - (p \div 100) + (p \div 400)

\* date(y, m, d).toordinal()
ymd2ord(y, m, d) == DaysBeforeYear(y) + DaysBeforeMonth(y, m) + d

\* date.fromordinal(ordinal) as year, month, day: the 400/100/4/1-year
\* cycle decomposition of the standard library
ord2ymd(ordinal) ==
    LET n0 == ordinal - 1
        n400 == n0 \div 146097
        r400 == n0 % 146097
        n100 == r400 \div 36524
        r100 == r400 % 36524
        n4 == r100 \div 1461
        r4 == r100 % 1461
        n1 == r4 \div 365
        n == r4 % 365
        year == n400 * 400 + 1 + n100 * 100 + n4 * 4 + n1
    IN IF n1 = 4 \/ n100 = 4 THEN [y |-> year - 1, m |-> 12, d |-> 31]
       ELSE LET month0 == (n + 50) \div 32
                before0 == DaysBeforeMonth(year, month0)
                month == IF before0 > n THEN month0 - 1 ELSE month0
                before == DaysBeforeMonth(year, month)
            IN [y |-> year, m |-> month, d |-> n - before + 1]

(***************************************************************************)
(* get_tax_summary of the engine.                                          *)
(***************************************************************************)
NoTotals ==
    [revenue |-> Dec(0, 0), expenses |-> Dec(0, 0),
     gst_collected |-> Dec(0, 0), qst_collected |-> Dec(0, 0),
     gst_paid |-> Dec(0, 0), qst_paid |-> Dec(0, 0)]

\* one pass of the loop of get_tax_summary: the totals after a transaction
\* of this type and amount, taxes being calculate_combined_taxes(amount)
SummaryAdd(tot, transaction_type, amount, taxes) ==
    IF PyEq(transaction_type, PyStr(Chars_revenue))
    THEN IF taxes.status # "ok" THEN taxes
         ELSE Return([tot EXCEPT
                        !.revenue = DecAdd(@, amount),
                        !.gst_collected = DecAdd(@, taxes.val.gst.tax_amount),
                        !.qst_collected = DecAdd(@, taxes.val.qst.tax_amount)])
    ELSE IF PyEq(transaction_type, PyStr(Chars_expense))
    THEN IF taxes.status # "ok" THEN taxes
         ELSE Return([tot EXCEPT
                        !.expenses = DecAdd(@, amount),
                        !.gst_paid = DecAdd(@, taxes.val.gst.tax_amount),
                        !.qst_paid = DecAdd(@, taxes.val.qst.tax_amount)])
    ELSE Return(tot)

\* the pass of get_tax_summary converting the amount of the transactions it
\* counts only: one of another type is passed over unread
SummaryPass_skips_uncounted(rs, acc, transaction_type, amount) ==
    IF acc.status # "ok" THEN acc
    ELSE IF ~amount.ok
    THEN (IF \/ PyEq(transaction_type, PyStr(Chars_revenue))
             \/ PyEq(transaction_type, PyStr(Chars_expense))
          THEN Raise("InvalidOperation") ELSE acc)
    ELSE SummaryAdd(acc.val, transaction_type, amount.num,
                    calculate_combined_taxes(rs, amount.num, FALSE))

\* the pass on one transaction; acc is the totals so far, or the exception
\* that already ended the loop
SummaryPass(rs, acc, transaction_type, amount) ==
    IF acc.status # "ok" THEN acc
    ELSE IF ~amount.ok THEN Raise("InvalidOperation")
    ELSE SummaryAdd(acc.val, transaction_type, amount.num,
                    calculate_combined_taxes(rs, amount.num, FALSE))

\* the loop of get_tax_summary from transaction i on
RECURSIVE SummaryLoop(_, _, _, _)
SummaryLoop(rs, transactions, i, acc) ==
    IF i > Len(transactions) THEN acc
    ELSE SummaryLoop(rs, transactions, i + 1,
             SummaryPass(rs, acc,
                 Get(transactions[i], "type", PyStr(Chars_revenue)),
                 DecimalOfStr(Get(transactions[i], "amount", PyInt(0)))))

\* the dictionary get_tax_summary returns from its six totals
SummaryOfTotals(tot, gst_remittance, qst_remittance) ==
    Return([total_revenue |-> tot.revenue,
            total_expenses |-> tot.expenses,
            net_income |-> DecSub(tot.revenue, tot.expenses),
            gst_collected |-> tot.gst_collected,
            gst_paid |-> tot.gst_paid,
            gst_remittance |-> gst_remittance,
            qst_collected |-> tot.qst_collected,
            qst_paid |-> tot.qst_paid,
            qst_remittance |-> qst_remittance,
            total_tax_remittance |-> DecAdd(gst_remittance, qst_remittance)])

SummaryOf(totals) ==
    IF totals.status # "ok" THEN totals
    ELSE SummaryOfTotals(totals.val,
             DecSub(totals.val.gst_collected, totals.val.gst_paid),
             DecSub(totals.val.qst_collected, totals.val.qst_paid))

get_tax_summary(rs, transactions) ==
    SummaryOf(SummaryLoop(rs, transactions, 1, Return(NoTotals)))

(***************************************************************************)
(* TaxAnalyzerAgent (agents/tax_analyzer.py): the aggregation built on the *)
(* engine.                                                                 *)
(***************************************************************************)
NoSales ==
    [gst_collected |-> Dec(0, 0), gst_paid |-> Dec(0, 0),
     qst_collected |-> Dec(0, 0), qst_paid |-> Dec(0, 0),
     taxable_revenue |-> Dec(0, 0), taxable_expenses |-> Dec(0, 0)]

\* the loop body of _analyze_sales_taxes leaving the expenses out
SalesAdd_expenses_uncounted(tot, transaction_type, amount, taxes) ==
    IF PyEq(transaction_type, PyStr(Chars_revenue))
    THEN IF taxes.status # "ok" THEN taxes
         ELSE Return([tot EXCEPT
                        !.taxable_revenue = DecAdd(@, amount),
                        !.gst_collected = DecAdd(@, taxes.val.gst.tax_amount),
                        !.qst_collected = DecAdd(@, taxes.val.qst.tax_amount)])
    ELSE Return(tot)

\* one pass of the loop of _analyze_sales_taxes: the totals after a
\* transaction of this type and amount
SalesAdd(tot, transaction_type, amount, taxes) ==
    IF PyEq(transaction_type, PyStr(Chars_revenue))
    THEN IF taxes.status # "ok" THEN taxes
         ELSE Return([tot EXCEPT
                        !.taxable_revenue = DecAdd(@, amount),
                        !.gst_collected = DecAdd(@, taxes.val.gst.tax_amount),
                        !.qst_collected = DecAdd(@, taxes.val.qst.tax_amount)])
    ELSE IF PyEq(transaction_type, PyStr(Chars_expense))
    THEN IF taxes.status # "ok" THEN taxes
         ELSE Return([tot EXCEPT
                        !.taxable_expenses = DecAdd(@, amount),
                        !.gst_paid = DecAdd(@, taxes.val.gst.tax_amount),
                        !.qst_paid = DecAdd(@, taxes.val.qst.tax_amount)])
    ELSE Return(tot)

SalesPass(rs, acc, transaction_type, amount) ==
    IF acc.status # "ok" THEN acc
    ELSE IF ~amount.ok THEN Raise("InvalidOperation")
    ELSE SalesAdd(acc.val, transaction_type, amount.num,
                  calculate_combined_taxes(rs, amount.num, FALSE))

\* the loop of _analyze_sales_taxes from transaction i on
RECURSIVE SalesLoop(_, _, _, _)
SalesLoop(rs, transactions, i, acc) ==
    IF i > Len(transactions) THEN acc
    ELSE SalesLoop(rs, transactions, i + 1,
             SalesPass(rs, acc,
                 Get(transactions[i], "type", PyStr(<<>>)),
                 DecimalOfStr(Get(transactions[i], "amount", PyInt(0)))))

\* the "gst" and "qst" dictionaries of _analyze_sales_taxes
SalesOfTotals(tot) ==
    Return(
        [gst |-> [collected |-> FloatOfDecimal(tot.gst_collected),
                  paid |-> FloatOfDecimal(tot.gst_paid),
                  remittance |-> FloatOfDecimal(
                      DecSub(tot.gst_collected, tot.gst_paid)),
                  rate |-> PyFloat(5, -2),
                  taxable_revenue |-> FloatOfDecimal(tot.taxable_revenue)],
         qst |-> [collected |-> FloatOfDecimal(tot.qst_collected),
                  paid |-> FloatOfDecimal(tot.qst_paid),
                  remittance |-> FloatOfDecimal(
                      DecSub(tot.qst_collected, tot.qst_paid)),
                  rate |-> PyFloat(9975, -5),
                  taxable_revenue |-> FloatOfDecimal(tot.taxable_revenue)]])

SalesOf(totals) ==
    IF totals.status # "ok" THEN totals ELSE SalesOfTotals(totals.val)

_analyze_sales_taxes(rs, transactions) ==
    SalesOf(SalesLoop(rs, transactions, 1, Return(NoSales)))

IncomeAdd(tot, transaction_type, amount) ==
    IF PyEq(transaction_type, PyStr(Chars_revenue))
    THEN Return([tot EXCEPT !.revenue = DecAdd(@, amount)])
    ELSE IF PyEq(transaction_type, PyStr(Chars_expense))
    THEN Return([tot EXCEPT !.expenses = DecAdd(@, amount)])
    ELSE Return(tot)

IncomePass(acc, transaction_type, amount) ==
    IF acc.status # "ok" THEN acc
    ELSE IF ~amount.ok THEN Raise("InvalidOperation")
    ELSE IncomeAdd(acc.val, transaction_type, amount.num)

\* the loop of _analyze_income_tax from transaction i on
RECURSIVE IncomeLoop(_, _, _)
IncomeLoop(transactions, i, acc) ==
    IF i > Len(transactions) THEN acc
    ELSE IncomeLoop(transactions, i + 1,
             IncomePass(acc,
                 Get(transactions[i], "type", PyStr(<<>>)),
                 DecimalOfStr(Get(transactions[i], "amount", PyInt(0)))))

\* the dictionary _analyze_income_tax returns
IncomeOfTaxes(tot, net_income, federal_tax_rate, provincial_tax_rate, federal_tax, provincial_tax) ==
    Return([total_revenue |-> FloatOfDecimal(tot.revenue),
            total_expenses |-> FloatOfDecimal(tot.expenses),
            net_income |-> FloatOfDecimal(net_income),
            federal_tax |-> FloatOfDecimal(federal_tax),
            provincial_tax |-> FloatOfDecimal(provincial_tax),
            total_tax |-> FloatOfDecimal(DecAdd(federal_tax, provincial_tax)),
            federal_rate |-> federal_tax_rate,
            provincial_rate |-> provincial_tax_rate])

\* federal_tax = net_income * Decimal(str(0.15)), provincial_tax =
\* net_income * Decimal(str(0.1475))
IncomeOfNet(tot, net_income, federal_tax_rate, provincial_tax_rate) ==
    IncomeOfTaxes(tot, net_income, federal_tax_rate, provincial_tax_rate,
        DecMul(net_income, DecimalOfStr(federal_tax_rate).num),
        DecMul(net_income, DecimalOfStr(provincial_tax_rate).num))

IncomeOf(totals) ==
    IF totals.status # "ok" THEN totals
    ELSE IncomeOfNet(totals.val,
             DecSub(totals.val.revenue, totals.val.expenses),
             PyFloat(15, -2), PyFloat(1475, -4))

_analyze_income_tax(transactions) ==
    IncomeOf(IncomeLoop(transactions, 1,
                 Return([revenue |-> Dec(0, 0), expenses |-> Dec(0, 0)])))

_check_credit_eligibility(category, amount, rule) ==
    IF rule.name = "SRED_Credit"
    THEN PyIn(category, <<PyStr(Chars_research), PyStr(Chars_development),
                          PyStr(Chars_rd)>>)
    ELSE IF rule.name = "Digital_Media_Credit_QC"
    THEN PyEq(category, PyStr(Chars_digital_media))
    ELSE FALSE

\* the first loop of _calculate_credits: the expenses of an eligible category
IsEligibleExpense(transaction) ==
    /\ PyEq(Get(transaction, "type", PyNone), PyStr(Chars_expense))
    /\ PyIn(Get(transaction, "category", PyStr(<<>>)),
            <<PyStr(Chars_research), PyStr(Chars_development),
              PyStr(Chars_rd), PyStr(Chars_digital_media)>>)

\* the second loop of _calculate_credits, from expense i and rule k on
RECURSIVE CreditLoop(_, _, _, _, _)
CreditLoop(eligible_expenses, credit_rules, i, k, acc) ==
    IF i > Len(eligible_expenses) THEN Return(acc)
    ELSE LET expense == eligible_expenses[i]
             amount == DecimalOfStr(Get(expense, "amount", PyInt(0)))
             category == Get(expense, "category", PyStr(<<>>))
         IN IF ~amount.ok THEN Raise("InvalidOperation")
            ELSE IF k > Len(credit_rules)
            THEN CreditLoop(eligible_expenses, credit_rules, i + 1, 1, acc)
            ELSE LET rule == credit_rules[k]
                     rate == DecimalOfStr(rule.value)
                     credit_amount == DecMul(amount.num, rate.num)
                 IN IF ~_check_credit_eligibility(category, amount.num, rule)
                    THEN CreditLoop(eligible_expenses, credit_rules,
                                    i, k + 1, acc)
                    ELSE IF ~rate.ok THEN Raise("InvalidOperation")
                    ELSE CreditLoop(eligible_expenses, credit_rules, i, k + 1,
                        Append(acc,
                            [category |-> category, rule |-> rule.name,
                             description |-> rule.description,
                             expense_amount |-> FloatOfDecimal(amount.num),
                             credit_amount |-> FloatOfDecimal(credit_amount),
                             rate |-> rule.value]))

_calculate_credits(rs, transactions, day) ==
    CreditLoop(SelectSeq(transactions, IsEligibleExpense),
               get_active_rules(rs, NoStr, "credit", day), 1, 1, <<>>)

\* the deadlines the fiscal calendar (config/fiscal_calendar.py) answers:
\* the first quarterly deadline named TPS/TVH is April 30 of the calendar's
\* year, the first annual one named "revenus" April 30 of the next year
_get_next_gst_deadline(current_year) == ymd2ord(current_year, 4, 30)
_get_next_qst_deadline(current_year) == ymd2ord(current_year, 4, 30)
_get_next_income_tax_deadline(current_year) == ymd2ord(current_year + 1, 4, 30)

Obligation(type, description, amount, deadline, jurisdiction) ==
    [type |-> type, description |-> description, amount |-> amount,
     deadline |-> deadline, jurisdiction |-> jurisdiction, priority |-> "high"]

\* _determine_obligations with every remittance reported, zero included
_determine_obligations_reports_zero(gst_analysis, qst_analysis, income_tax, current_year) ==
    <<Obligation("gst_remittance", "Remise TPS", gst_analysis.remittance,
                 _get_next_gst_deadline(current_year), "CA"),
      Obligation("qst_remittance", "Remise TVQ", qst_analysis.remittance,
                 _get_next_qst_deadline(current_year), "QC")>>
    \o (IF DecLt(Dec(0, 0), NumOf(income_tax.total_tax))
        THEN <<Obligation("income_tax", "Impot sur le revenu",
                          income_tax.total_tax,
                          _get_next_income_tax_deadline(current_year), "both")>>
        ELSE <<>>)

_determine_obligations(gst_analysis, qst_analysis, income_tax, current_year) ==
    (IF ~DecEq(NumOf(gst_analysis.remittance), Dec(0, 0))
     THEN <<Obligation("gst_remittance", "Remise TPS", gst_analysis.remittance,
                       _get_next_gst_deadline(current_year), "CA")>>
     ELSE <<>>)
    \o (IF ~DecEq(NumOf(qst_analysis.remittance), Dec(0, 0))
        THEN <<Obligation("qst_remittance", "Remise TVQ",
                          qst_analysis.remittance,
                          _get_next_qst_deadline(current_year), "QC")>>
        ELSE <<>>)
    \o (IF DecLt(Dec(0, 0), NumOf(income_tax.total_tax))
        THEN <<Obligation("income_tax", "Impot sur le revenu",
                          income_tax.total_tax,
                          _get_next_income_tax_deadline(current_year), "both")>>
        ELSE <<>>)

(***************************************************************************)
(* The rules file: json.dump / json.load of the rule store.                *)
(***************************************************************************)
\* a JSON value: null, true, false, a number literal c * 10^e (written
\* with a fraction or not), or a string of characters
JNull == [j |-> "null", c |-> 0, e |-> 0, frac |-> FALSE, s |-> <<>>]
JBool(b) ==
    [j |-> IF b THEN "true" ELSE "false", c |-> 0, e |-> 0, frac |-> FALSE,
     s |-> <<>>]
JNumber(c, e, frac) ==
    [j |-> "number", c |-> c, e |-> e, frac |-> frac, s |-> <<>>]
JString(chars) ==
    [j |-> "string", c |-> 0, e |-> 0, frac |-> FALSE, s |-> chars]

\* json.dump knows None, bool, int, float and str; a Decimal is "not JSON
\* serializable" (TypeError)
Serializable(v) == v.t \in {"none", "bool", "int", "float", "str"}

\* the literal json.dump writes: float.__repr__ for a float (always with a
\* fraction or an exponent), int.__repr__ for an int
JsonOfValue(v) ==
    CASE v.t = "none" -> JNull
      [] v.t = "bool" -> JBool(v.c = 1)
      [] v.t = "int" -> JNumber(v.c, 0, FALSE)
      [] v.t = "float" -> JNumber(v.c, v.e, TRUE)
      [] v.t = "str" -> JString(v.s)

\* what json.load builds: a literal with a fraction is a float, one
\* without is an int
ValueOfJson(jv) ==
    CASE jv.j = "null" -> PyNone
      [] jv.j = "true" -> PyBool(TRUE)
      [] jv.j = "false" -> PyBool(FALSE)
      [] jv.j = "number" ->
             IF jv.frac THEN PyFloat(jv.c, jv.e) ELSE PyInt(jv.c)
      [] jv.j = "string" -> PyStr(jv.s)

\* a str attribute (name, description, jurisdiction, category) as a JSON
\* string, and back
JText(text) == [j |-> "string", text |-> text]
TextOfJson(jt) == jt.text

\* rule.conditions: None is null, a dict an object with the same keys in
\* the same order
JsonOfConditions(conditions) ==
    IF conditions.none THEN [j |-> "null", members |-> <<>>]
    ELSE [j |-> "object",
          members |-> [i \in 1..Len(conditions.items) |->
                          <<conditions.items[i][1],
                            JsonOfValue(conditions.items[i][2])>>]]
ConditionsOfJson(jc) ==
    IF jc.j = "null" THEN NoConditions
    ELSE Conditions([i \in 1..Len(jc.members) |->
                        <<jc.members[i][1], ValueOfJson(jc.members[i][2])>>])

\* `d.isoformat() if d else None`: the text YYYY-MM-DD given by its three
\* numbers, or null
NoIso == [y |-> 0, m |-> 0, d |-> 0]
JsonOfDate(d) ==
    IF DateSet(d) THEN [j |-> "string", iso |-> ord2ymd(d)]
    ELSE [j |-> "null", iso |-> NoIso]
\* `date.fromisoformat(text) if text else None`
DateOfJson(jd) ==
    IF jd.j = "string" THEN ymd2ord(jd.iso.y, jd.iso.m, jd.iso.d) ELSE NoDate

RuleIsSerializable(rule) ==
    /\ Serializable(rule.value)
    /\ \A i \in 1..Len(rule.conditions.items) :
           Serializable(rule.conditions.items[i][2])

\* rules_data[name] of export_rules
DumpRule(rule) ==
    [name |-> JText(rule.name), description |-> JText(rule.description),
     jurisdiction |-> JText(rule.jurisdiction),
     category |-> JText(rule.category),
     value |-> JsonOfValue(rule.value),
     conditions |-> JsonOfConditions(rule.conditions),
     effective_date |-> JsonOfDate(rule.effective_date),
     expiry_date |-> JsonOfDate(rule.expiry_date),
     is_active |-> JBool(rule.is_active)]

\* the TaxRule import_rules builds from one entry of the file
LoadRule(data) ==
    TaxRule(TextOfJson(data.name), TextOfJson(data.description),
            TextOfJson(data.jurisdiction), TextOfJson(data.category),
            ValueOfJson(data.value), ConditionsOfJson(data.conditions),
            DateOfJson(data.effective_date), DateOfJson(data.expiry_date),
            data.is_active.j = "true")

\* the file: absent, a JSON object given by its members <<name, entry>> in
\* order, or the text json.dump had written when it raised
NoFile == [kind |-> "absent", members |-> <<>>]
TruncatedFile == [kind |-> "truncated", members |-> <<>>]
JsonFile(members) == [kind |-> "json", members |-> members]

\* export_rules: open(filepath, 'w') empties the file and json.dump writes
\* it piece by piece, so a value it cannot serialize leaves a truncated
\* text behind the TypeError.  The result pairs the outcome with the file.
export_rules(rs) ==
    IF \A i \in 1..Len(rs) : RuleIsSerializable(rs[i])
    THEN [out |-> Return(<<>>),
          file |-> JsonFile([i \in 1..Len(rs) |->
                                <<rs[i].name, DumpRule(rs[i])>>])]
    ELSE [out |-> Raise("TypeError"), file |-> TruncatedFile]

\* the text is a date date.fromisoformat accepts
IsoOk(iso) ==
    /\ iso.y \in 1..9999
    /\ iso.m \in 1..12
    /\ iso.d \in 1..DaysInMonth(iso.y, iso.m)

\* the fields of an entry in the order TaxRule(...) of import_rules reads
\* them
EntryFields ==
    <<"name", "description", "jurisdiction", "category", "value",
      "conditions", "effective_date", "expiry_date", "is_active">>

\* building the rule of an entry from field k on: data[field] of a field
\* the entry lacks raises KeyError, date.fromisoformat of a text that is
\* not a date raises ValueError; "ok" when the rule is built
RECURSIVE LoadError(_, _)
LoadError(data, k) ==
    IF k > Len(EntryFields) THEN "ok"
    ELSE IF EntryFields[k] \notin DOMAIN data THEN "KeyError"
    ELSE IF /\ EntryFields[k] \in {"effective_date", "expiry_date"}
            /\ data[EntryFields[k]].j = "string"
            /\ ~IsoOk(data[EntryFields[k]].iso)
    THEN "ValueError"
    ELSE LoadError(data, k + 1)

\* the loop of import_rules: self.rules[name] = rule for each member in
\* file order (every member's key is its rule's name); no rule is removed,
\* and an entry that cannot be built ends the loop with its exception, the
\* rules assigned before it staying in the store
RECURSIVE ImportLoop(_, _, _)
ImportLoop(rs, members, i) ==
    IF i > Len(members) THEN [out |-> Return(<<>>), rules |-> rs]
    ELSE IF LoadError(members[i][2], 1) # "ok"
    THEN [out |-> Raise(LoadError(members[i][2], 1)), rules |-> rs]
    ELSE ImportLoop(add_rule(rs, LoadRule(members[i][2])), members, i + 1)

\* import_rules undoing the entries it had written when one fails
import_rules_all_or_nothing(rs, f) ==
    IF f.kind = "absent"
    THEN [out |-> Raise("FileNotFoundError"), rules |-> rs]
    ELSE IF f.kind = "truncated"
    THEN [out |-> Raise("JSONDecodeError"), rules |-> rs]
    ELSE IF ImportLoop(rs, f.members, 1).out.status # "ok"
    THEN [out |-> ImportLoop(rs, f.members, 1).out, rules |-> rs]
    ELSE ImportLoop(rs, f.members, 1)

\* import_rules emptying the store before it reads the entries
import_rules_replaces_store(rs, f) ==
    IF f.kind = "absent"
    THEN [out |-> Raise("FileNotFoundError"), rules |-> rs]
    ELSE IF f.kind = "truncated"
    THEN [out |-> Raise("JSONDecodeError"), rules |-> rs]
    ELSE ImportLoop(<<>>, f.members, 1)

\* import_rules: the outcome paired with the store it leaves
import_rules(rs, f) ==
    IF f.kind = "absent"
    THEN [out |-> Raise("FileNotFoundError"), rules |-> rs]
    ELSE IF f.kind = "truncated"
    THEN [out |-> Raise("JSONDecodeError"), rules |-> rs]
    ELSE ImportLoop(rs, f.members, 1)

(***************************************************************************)
(* Inputs of the calls.                                                    *)
(***************************************************************************)
\* the first current date of a behaviour: date(2024, 1, 1)
FirstDay == 738886

JurisdictionArgs == {NoStr, "", "QC", "CA", "both"}
CategoryArgs == {NoStr, "rate", "credit", "deduction"}

\* Decimal('1000.0'), Decimal('0'), Decimal('0.99'), Decimal('-50.0')
AmountInputs == {Dec(10000, -1), Dec(0, 0), Dec(99, -2), Dec(-500, -1)}

Chars_abc == <<"a", "b", "c">>

RuleInputs == {
    TaxRule("Carbon_Rebate", "one-day credit", "CA", "credit",
            PyFloat(2, -1), NoConditions, FirstDay + 1, FirstDay + 1, TRUE),
    TaxRule("Carbon_Rebate", "switched off", "both", "credit",
            PyFloat(2, -1), NoConditions, NoDate, NoDate, FALSE),
    TaxRule("TPS_Rate", "Taux de TPS, expiring", "QC", "rate",
            PyFloat(6, -2), NoConditions, NoDate, FirstDay, TRUE),
    TaxRule("Green_Deduction", "future deduction", "both", "deduction",
            PyInt(1), Conditions(<<>>), FirstDay + 1, NoDate, TRUE) }

\* (rule_name, new_value, effective_date)
UpdateInputs == {
    <<"TPS_Rate", PyFloat(6, -2), NoDate>>,
    <<"TPS_Rate", PyDecimal(6, -2), NoDate>>,
    <<"TVQ_Rate", PyFloat(1, -1), FirstDay + 2>>,
    <<"TVQ_Rate", PyStr(Chars_abc), NoDate>>,
    <<"Unknown_Rule", PyInt(1), FirstDay + 1>> }

\* rule stores a caller may hold besides the constructor's: self.rules is a
\* public dict (a fresh store of a test, filled by hand)
StoreInputs == {
    <<>>,
    <<DefaultRuleList[2]>>,
    <<DefaultRuleList[1], DefaultRuleList[3]>>,
    load_default_rules }

\* at most this many items in a conditions dict handed to the matcher
MaxPairs == 2

Chars_gt100 == <<">", "1", "0", "0">>
Chars_lt100 == <<"<", "1", "0", "0">>
Chars_gtabc == <<">", "a", "b", "c">>
Chars_lt == <<"<">>

FieldNames == {"revenue", "documented", "home_office_percentage"}
ConstraintInputs ==
    {PyStr(Chars_gt100), PyStr(Chars_lt100), PyStr(Chars_gtabc),
     PyStr(Chars_lt), PyBool(TRUE)}
DataValues ==
    {PyInt(150), PyInt(100), PyDecimal(500, -1), PyBool(TRUE),
     PyStr(Chars_abc), PyNone}

\* every record over the field names: each field absent or one of the values
DataInputs ==
    UNION {[fields -> DataValues] : fields \in SUBSET FieldNames}

\* a dict has one item per key
DistinctKeys(items) ==
    \A i, k \in 1..Len(items) : i # k => items[i][1] # items[k][1]

ItemLists ==
    UNION {[1..n -> FieldNames \X ConstraintInputs] : n \in 0..MaxPairs}

\* None, and every dict of at most MaxPairs items, in every insertion order
ConditionInputs ==
    {NoConditions} \cup
    {Conditions(items) : items \in {l \in ItemLists : DistinctKeys(l)}}

\* at most this many expenses or transactions in a list handed to a call
MaxItems == 2

\* expense records for apply_deductions and apply_credits
ExpenseInputs == {
    ("amount" :> PyInt(400)) @@ ("home_office_percentage" :> PyInt(50))
        @@ ("exclusive_use" :> PyBool(TRUE)),
    ("amount" :> PyInt(200)) @@ ("expense_type" :> PyStr(Chars_business))
        @@ ("documented" :> PyBool(TRUE))
        @@ ("home_office_percentage" :> PyInt(50))
        @@ ("exclusive_use" :> PyBool(TRUE)),
    ("amount" :> PyInt(1000)) @@ ("sred_eligible" :> PyBool(TRUE))
        @@ ("documented" :> PyBool(TRUE)),
    ("amount" :> PyInt(50)) @@ ("documented" :> PyBool(FALSE)) }

\* the amount argument of apply_deductions and apply_credits:
\* Decimal('1000.0') and Decimal('0')
ApplyAmounts == {Dec(10000, -1), Dec(0, 0)}

ExpenseLists == UNION {[1..n -> ExpenseInputs] : n \in 0..MaxItems}

\* transactions for the aggregators: a revenue of 1000.0, two expenses of
\* a credit category (one of 1000.0), a transfer, one without a type, an
\* expense without an amount, and a revenue, an expense, a transfer and an
\* untyped one whose amount is not a number ("abc", None)
TransactionInputs == {
    ("type" :> PyStr(Chars_revenue)) @@ ("amount" :> PyFloat(10000, -1)),
    ("type" :> PyStr(Chars_expense)) @@ ("amount" :> PyInt(400))
        @@ ("category" :> PyStr(Chars_research)),
    ("type" :> PyStr(Chars_expense)) @@ ("amount" :> PyFloat(10000, -1))
        @@ ("category" :> PyStr(Chars_digital_media)),
    ("type" :> PyStr(Chars_transfer)) @@ ("amount" :> PyInt(75)),
    ("amount" :> PyInt(100)) @@ ("category" :> PyStr(Chars_rent)),
    ("type" :> PyStr(Chars_revenue)) @@ ("amount" :> PyStr(Chars_abc)),
    ("type" :> PyStr(Chars_expense)) @@ ("category" :> PyStr(Chars_rent)),
    ("type" :> PyStr(Chars_expense)) @@ ("amount" :> PyStr(Chars_abc)),
    ("type" :> PyStr(Chars_transfer)) @@ ("amount" :> PyStr(Chars_abc)),
    ("amount" :> PyNone) @@ ("category" :> PyStr(Chars_rent)) }

TransactionLists == UNION {[1..n -> TransactionInputs] : n \in 0..MaxItems}

RuleNameArgs == {"TPS_Rate", "Carbon_Rebate", "Unknown_Rule"}

\* entries of a rules file written by hand: three that are complete
\* (Carbon_Rebate, a TVQ_Rate of 0.1 and Green_Deduction), a TPS_Rate entry
\* without "category" and a Green_Deduction entry whose effective_date is
\* "2024-13-01"
EntryCarbon ==
    DumpRule(TaxRule("Carbon_Rebate", "one-day credit", "CA", "credit",
                     PyFloat(2, -1), NoConditions, FirstDay + 1, FirstDay + 1,
                     TRUE))
EntryTvq ==
    DumpRule(TaxRule("TVQ_Rate", "Taux de TVQ", "QC", "rate", PyFloat(1, -1),
                     NoConditions, D2013, NoDate, TRUE))
EntryGreen ==
    DumpRule(TaxRule("Green_Deduction", "future deduction", "both",
                     "deduction", PyInt(1), Conditions(<<>>), FirstDay + 1,
                     NoDate, TRUE))
EntryNoCategory ==
    [k \in DOMAIN DumpRule(DefaultRuleList[1]) \ {"category"} |->
        DumpRule(DefaultRuleList[1])[k]]
EntryBadDate ==
    [EntryGreen EXCEPT
        !.effective_date = [j |-> "string",
                            iso |-> [y |-> 2024, m |-> 13, d |-> 1]]]

\* rules files written elsewhere and put at the path import_rules reads
FileInputs == {
    JsonFile(<<<<"Carbon_Rebate", EntryCarbon>>, <<"TVQ_Rate", EntryTvq>>,
               <<"Green_Deduction", EntryGreen>>>>),
    JsonFile(<<<<"Carbon_Rebate", EntryCarbon>>,
               <<"TPS_Rate", EntryNoCategory>>,
               <<"TVQ_Rate", EntryTvq>>>>),
    JsonFile(<<<<"TVQ_Rate", EntryTvq>>, <<"Green_Deduction", EntryBadDate>>,
               <<"Carbon_Rebate", EntryCarbon>>>>),
    JsonFile(<<<<"Green_Deduction", EntryBadDate>>,
               <<"TVQ_Rate", EntryTvq>>>>),
    TruncatedFile,
    NoFile }

NoCall == [op |-> "none", args |-> <<>>]
NoMemo ==
    [kept |-> FALSE, call |-> NoCall, ret |-> [status |-> "ok", val |-> <<>>],
     rules |-> <<>>, today |-> 0]

\* the threads of a service that shares tax_rules_engine: two that write
\* and one that reads
Writers == {"w1", "w2"}
Readers == {"r"}
\* a thread that has made no call: op and args of its call, where it is in
\* it (pc), the TaxRule object it holds (ref), its place in a loop (pos),
\* the dict size its iterator started with (size), the objects it has
\* listed (acc) and what the call returned or raised (out)
NoThread ==
    [op |-> "idle", args |-> <<>>, pc |-> "idle", ref |-> 0, pos |-> 0,
     size |-> 0, acc |-> <<>>, out |-> Return(<<>>)]
\* no overlapping calls: the calls are made one after the other
NoThreads ==
    [objects |-> <<>>, ids |-> <<>>,
     of |-> [t \in Writers \cup Readers |-> NoThread]]

(***************************************************************************)
(* The calls on the engine.                                                *)
(***************************************************************************)
Init ==
    /\ rules = load_default_rules
    /\ today = FirstDay
    /\ writes = 0
    /\ call = NoCall
    /\ ret = Return(<<>>)
    /\ file = NoFile
    /\ memo = NoMemo
    /\ threads = NoThreads

InitStore ==
    /\ rules \in StoreInputs
    /\ today = FirstDay
    /\ writes = 0
    /\ call = NoCall
    /\ ret = Return(<<>>)
    /\ file = NoFile
    /\ memo = NoMemo
    /\ threads = NoThreads

\* a call is made when the previous one has returned to its caller
Idle == call.op = "none"

DoAddRule ==
    /\ Idle
    /\ \E rule \in RuleInputs :
        /\ writes < MaxWrites
        /\ rules' = add_rule(rules, rule)
        /\ writes' = writes + 1
        /\ call' = [op |-> "add_rule", args |-> <<rule>>]
        /\ ret' = Return(<<>>)
        /\ UNCHANGED <<today, file, memo, threads>>

DoUpdateRule ==
    /\ Idle
    /\ \E u \in UpdateInputs :
        /\ writes < MaxWrites
        /\ rules' = update_rule(rules, u[1], u[2], u[3])
        /\ writes' = writes + 1
        /\ call' = [op |-> "update_rule", args |-> u]
        /\ ret' = Return(<<>>)
        /\ UNCHANGED <<today, file, memo, threads>>

\* midnight passes
Tick ==
    /\ today < FirstDay + MaxDays
    /\ today' = today + 1
    /\ call' = NoCall
    /\ ret' = Return(<<>>)
    /\ UNCHANGED <<rules, writes, file, memo, threads>>

DoGetActiveRules ==
    /\ Idle
    /\ \E jurisdiction \in JurisdictionArgs, category \in CategoryArgs :
        /\ call' = [op |-> "get_active_rules",
                    args |-> <<jurisdiction, category>>]
        /\ ret' = Return(get_active_rules(rules, jurisdiction, category, today))
        /\ UNCHANGED <<rules, today, writes, file, memo, threads>>

DoCalculateGst ==
    /\ Idle
    /\ \E amount \in AmountInputs, is_zero_rated \in BOOLEAN :
        /\ call' = [op |-> "calculate_gst", args |-> <<amount, is_zero_rated>>]
        /\ ret' = calculate_gst(rules, amount, is_zero_rated)
        /\ UNCHANGED <<rules, today, writes, file, memo, threads>>

DoCalculateQst ==
    /\ Idle
    /\ \E amount \in AmountInputs, is_zero_rated \in BOOLEAN :
        /\ call' = [op |-> "calculate_qst", args |-> <<amount, is_zero_rated>>]
        /\ ret' = calculate_qst(rules, amount, is_zero_rated)
        /\ UNCHANGED <<rules, today, writes, file, memo, threads>>

DoCalculateCombinedTaxes ==
    /\ Idle
    /\ \E amount \in AmountInputs, is_zero_rated \in BOOLEAN :
        /\ call' = [op |-> "calculate_combined_taxes",
                    args |-> <<amount, is_zero_rated>>]
        /\ ret' = calculate_combined_taxes(rules, amount, is_zero_rated)
        /\ UNCHANGED <<rules, today, writes, file, memo, threads>>

\* the caller has taken the result (or caught the exception)
ReturnToCaller ==
    /\ ~Idle
    /\ call' = NoCall
    /\ ret' = Return(<<>>)
    /\ UNCHANGED <<rules, today, writes, file, memo, threads>>

DoCheckConditions ==
    /\ Idle
    /\ \E data \in DataInputs, conditions \in ConditionInputs :
        /\ call' = [op |-> "_check_conditions", args |-> <<data, conditions>>]
        /\ ret' = _check_conditions(data, conditions)
        /\ UNCHANGED <<rules, today, writes, file, memo, threads>>

\* _check_conditions as apply_deductions and apply_credits call it: an
\* expense against the conditions of a rule of the store
DoCheckRuleConditions ==
    /\ Idle
    /\ \E data \in ExpenseInputs, k \in 1..Len(rules) :
        /\ call' = [op |-> "_check_conditions",
                    args |-> <<data, rules[k].conditions>>]
        /\ ret' = _check_conditions(data, rules[k].conditions)
        /\ UNCHANGED <<rules, today, writes, file, memo, threads>>

\* DoGetRule taking the rule out of the store (self.rules.pop(name, None))
DoGetRule_pops ==
    /\ Idle
    /\ \E name \in RuleNameArgs :
        /\ call' = [op |-> "get_rule", args |-> <<name>>]
        /\ ret' = Return(get_rule(rules, name))
        /\ rules' = SelectSeq(rules, LAMBDA rule : rule.name # name)
        /\ UNCHANGED <<today, writes, file, memo, threads>>

DoGetRule ==
    /\ Idle
    /\ \E name \in RuleNameArgs :
        /\ call' = [op |-> "get_rule", args |-> <<name>>]
        /\ ret' = Return(get_rule(rules, name))
        /\ UNCHANGED <<rules, today, writes, file, memo, threads>>

DoApplyDeductions ==
    /\ Idle
    /\ \E amount \in ApplyAmounts, expenses \in ExpenseLists :
        /\ call' = [op |-> "apply_deductions", args |-> <<amount, expenses>>]
        /\ ret' = apply_deductions(rules, amount, expenses, today)
        /\ UNCHANGED <<rules, today, writes, file, memo, threads>>

DoApplyCredits ==
    /\ Idle
    /\ \E tax_amount \in ApplyAmounts, eligible_expenses \in ExpenseLists :
        /\ call' = [op |-> "apply_credits",
                    args |-> <<tax_amount, eligible_expenses>>]
        /\ ret' = apply_credits(rules, tax_amount, eligible_expenses, today)
        /\ UNCHANGED <<rules, today, writes, file, memo, threads>>

\* TaxAnalyzerAgent._calculate_credits on the global engine
DoCalculateCredits ==
    /\ Idle
    /\ \E transactions \in TransactionLists :
        /\ call' = [op |-> "_calculate_credits", args |-> <<transactions>>]
        /\ ret' = _calculate_credits(rules, transactions, today)
        /\ UNCHANGED <<rules, today, writes, file, memo, threads>>

DoGetTaxSummary ==
    /\ Idle
    /\ \E transactions \in TransactionLists :
        /\ call' = [op |-> "get_tax_summary", args |-> <<transactions>>]
        /\ ret' = get_tax_summary(rules, transactions)
        /\ UNCHANGED <<rules, today, writes, file, memo, threads>>

\* the obligations of analyze_transactions: _analyze_sales_taxes, then
\* _analyze_income_tax, then _determine_obligations on their results; the
\* calendar was built in the year of the first day
DoDetermineObligations ==
    /\ Idle
    /\ \E transactions \in TransactionLists :
       \E sales \in {_analyze_sales_taxes(rules, transactions)} :
       \E income \in {_analyze_income_tax(transactions)} :
           /\ call' = [op |-> "_determine_obligations",
                       args |-> <<transactions>>]
           /\ ret' = IF sales.status # "ok" THEN sales
                     ELSE IF income.status # "ok" THEN income
                     ELSE Return(
                         [gst_analysis |-> sales.val.gst,
                          qst_analysis |-> sales.val.qst,
                          income_tax_analysis |-> income.val,
                          obligations |->
                              _determine_obligations(sales.val.gst,
                                  sales.val.qst, income.val,
                                  ord2ymd(FirstDay).y)])
           /\ UNCHANGED <<rules, today, writes, file, memo, threads>>

DoExportRules ==
    /\ Idle
    /\ call' = [op |-> "export_rules", args |-> <<>>]
    /\ ret' = export_rules(rules).out
    /\ file' = export_rules(rules).file
    /\ UNCHANGED <<rules, today, writes, memo, threads>>

DoImportRules ==
    /\ Idle
    /\ call' = [op |-> "import_rules", args |-> <<>>]
    /\ ret' = import_rules(rules, file).out
    /\ rules' = import_rules(rules, file).rules
    /\ UNCHANGED <<today, writes, file, memo, threads>>

\* a rules file written elsewhere is put at the path (or the file there
\* is damaged or removed) between two calls
PlaceFile ==
    /\ Idle
    /\ \E f \in FileInputs :
        /\ f # file
        /\ file' = f
        /\ UNCHANGED <<rules, today, writes, call, ret, memo, threads>>

\* the caller keeps the result of the call it made, with the store content
\* and the date it was made on
KeepResult ==
    /\ ~Idle
    /\ memo' = [kept |-> TRUE, call |-> call, ret |-> ret,
                rules |-> rules, today |-> today]
    /\ call' = NoCall
    /\ ret' = Return(<<>>)
    /\ UNCHANGED <<rules, today, writes, file, threads>>

Next ==
    \/ DoAddRule
    \/ DoUpdateRule
    \/ Tick
    \/ DoGetActiveRules
    \/ DoCalculateGst
    \/ DoCalculateQst
    \/ DoCalculateCombinedTaxes
    \/ DoGetRule
    \/ ReturnToCaller

\* the condition matcher alone: it reads neither the store nor the clock
NextMatcher ==
    \/ DoCheckConditions
    \/ ReturnToCaller

\* deductions and credits over the stores and the days the writes reach
NextApply ==
    \/ DoAddRule
    \/ Tick
    \/ DoApplyDeductions
    \/ DoApplyCredits
    \/ DoCalculateCredits
    \/ ReturnToCaller

\* the aggregators over the rates update_rule sets
NextAggregate ==
    \/ DoUpdateRule
    \/ DoGetTaxSummary
    \/ DoDetermineObligations
    \/ ReturnToCaller

\* the rules file: writes to the store, export, import and the calls that
\* read what an import stored
NextFile ==
    \/ DoAddRule
    \/ DoUpdateRule
    \/ DoExportRules
    \/ DoImportRules
    \/ PlaceFile
    \/ DoGetRule
    \/ DoCalculateGst
    \/ ReturnToCaller

\* the queries and calculations alone, a kept result at hand
NextReplay ==
    \/ DoGetRule
    \/ DoGetActiveRules
    \/ DoCalculateGst
    \/ DoCalculateQst
    \/ DoCalculateCombinedTaxes
    \/ DoApplyDeductions
    \/ DoApplyCredits
    \/ DoCheckRuleConditions
    \/ DoGetTaxSummary
    \/ KeepResult
    \/ ReturnToCaller

\* the engine as the constructor leaves it, then any calls
Spec == Init /\ [][Next]_vars
\* the engine over a store a caller has set up, then any calls
SpecStore == InitStore /\ [][Next]_vars
\* the condition matcher applied to every record and conditions of the bounds
SpecMatcher == Init /\ [][NextMatcher]_vars
\* deductions and credits
SpecApply == Init /\ [][NextApply]_vars
\* the aggregators
SpecAggregate == Init /\ [][NextAggregate]_vars
\* export and import
SpecFile == Init /\ [][NextFile]_vars
\* repeated queries
SpecReplay == Init /\ [][NextReplay]_vars

(***************************************************************************)
(* Overlapping calls.  The engine takes no lock, so the threads of a       *)
(* service interleave between the statements of its methods; each action   *)
(* below is one access to the shared dict or to a shared TaxRule object.   *)
(* objects[id] is the content of a TaxRule object, ids the objects the     *)
(* dict refers to, in insertion order; rules is what the dict holds.       *)
(***************************************************************************)
\* the rule a thread adds, by writer
ThreadRules(t) ==
    IF t = "w1"
    THEN {TaxRule("Green_Deduction", "future deduction", "both", "deduction",
                  PyInt(1), Conditions(<<>>), FirstDay + 1, NoDate, TRUE),
          TaxRule("TVQ_Rate", "Taux de TVQ", "QC", "rate", PyFloat(1, -1),
                  NoConditions, D2013, NoDate, TRUE)}
    ELSE {TaxRule("TVQ_Rate", "Taux de TVQ", "QC", "rate", PyFloat(8, -2),
                  NoConditions, D2013, NoDate, TRUE)}
\* (rule_name, new_value, effective_date) of a thread's update_rule
ThreadUpdates(t) ==
    IF t = "w1" THEN {<<"TVQ_Rate", PyFloat(1, -1), FirstDay + 2>>}
    ELSE {<<"TVQ_Rate", PyFloat(9, -2), FirstDay + 1>>,
          <<"TVQ_Rate", PyFloat(9, -2), NoDate>>,
          <<"Unknown_Rule", PyInt(1), NoDate>>}
\* the thread that imports the rules file
Importers == {"w1"}
\* (jurisdiction, category) of the reader's get_active_rules
ThreadQueries == {<<NoStr, "rate">>, <<"QC", NoStr>>}
\* the file at the path when the threads start, written by hand: a
\* TPS_Rate of 0.06, a TVQ_Rate of 0.1 and Green_Deduction
EntryTps ==
    DumpRule(TaxRule("TPS_Rate", "Taux de TPS", "CA", "rate", PyFloat(6, -2),
                     NoConditions, D2008, NoDate, TRUE))
ThreadFile ==
    JsonFile(<<<<"TPS_Rate", EntryTps>>, <<"TVQ_Rate", EntryTvq>>,
               <<"Green_Deduction", EntryGreen>>>>)

\* the service has imported the engine: the constructor's nine objects
InitThreads ==
    /\ rules = load_default_rules
    /\ today = FirstDay
    /\ writes = 0
    /\ call = NoCall
    /\ ret = Return(<<>>)
    /\ file = ThreadFile
    /\ memo = NoMemo
    /\ threads = [objects |-> load_default_rules,
                  ids |-> [i \in 1..Len(load_default_rules) |-> i],
                  of |-> [t \in Writers \cup Readers |-> NoThread]]

\* what the dict holds: the content of the objects it refers to
Held(objects, ids) == [i \in 1..Len(ids) |-> objects[ids[i]]]

\* the dict's references after self.rules[name] = <object id>: in place of
\* the one under the key (place i), or after the last key (i = 0)
AssignAt(ids, i, id) ==
    IF i = 0 THEN Append(ids, id) ELSE [ids EXCEPT ![i] = id]

\* self.rules[rule.name] = rule with a TaxRule just built: a new object
Assign(objects, ids, rule) ==
    [objects |-> Append(objects, rule),
     ids |-> AssignAt(ids, IndexOf(Held(objects, ids), rule.name, 1),
                      Len(objects) + 1)]

\* the threads' records after a step of thread t
Thread(t, th) == [threads.of EXCEPT ![t] = th]

\* add_rule in a thread: the one assignment
ThreadAddRule(t) ==
    /\ threads.of[t].op = "idle"
    /\ \E rule \in ThreadRules(t) :
       \E heap \in {Assign(threads.objects, threads.ids, rule)} :
        /\ threads' =
               [objects |-> heap.objects, ids |-> heap.ids,
                of |-> Thread(t, [NoThread EXCEPT !.op = "add_rule",
                                                  !.args = <<rule>>,
                                                  !.pc = "done"])]
        /\ rules' = Held(heap.objects, heap.ids)
        /\ UNCHANGED <<today, writes, call, ret, file, memo>>

\* update_rule in a thread, `if rule_name in self.rules: rule =
\* self.rules[rule_name]`: the thread holds the object now under the name
ThreadUpdateLookup(t) ==
    /\ threads.of[t].op = "idle"
    /\ \E u \in ThreadUpdates(t) :
       \E i \in {IndexOf(rules, u[1], 1)} :
        /\ threads' =
               [threads EXCEPT !.of = Thread(t,
                   [NoThread EXCEPT
                       !.op = "update_rule", !.args = u,
                       !.ref = IF i = 0 THEN 0 ELSE threads.ids[i],
                       !.pc = IF i = 0 THEN "done" ELSE "value"])]
        /\ UNCHANGED <<rules, today, writes, call, ret, file, memo>>

\* `rule.value = new_value` on the object the thread holds
ThreadUpdateValue(t) ==
    /\ threads.of[t].pc = "value"
    /\ \E th \in {threads.of[t]} :
       \E objects \in {[threads.objects EXCEPT ![th.ref].value = th.args[2]]} :
        /\ threads' =
               [threads EXCEPT
                   !.objects = objects,
                   !.of = Thread(t, [th EXCEPT !.pc = IF DateSet(th.args[3])
                                                      THEN "date"
                                                      ELSE "done"])]
        /\ rules' = Held(objects, threads.ids)
        /\ UNCHANGED <<today, writes, call, ret, file, memo>>

\* `rule.effective_date = effective_date` on the object the thread holds
ThreadUpdateDate(t) ==
    /\ threads.of[t].pc = "date"
    /\ \E th \in {threads.of[t]} :
       \E objects \in {[threads.objects EXCEPT
                           ![th.ref].effective_date = th.args[3]]} :
        /\ threads' =
               [threads EXCEPT !.objects = objects,
                               !.of = Thread(t, [th EXCEPT !.pc = "done"])]
        /\ rules' = Held(objects, threads.ids)
        /\ UNCHANGED <<today, writes, call, ret, file, memo>>

\* import_rules in a thread, `rules_data = json.load(f)`: the entries of
\* the file are in the thread's hands, or the call has raised
ThreadImportLoad(t) ==
    /\ threads.of[t].op = "idle"
    /\ t \in Importers
    /\ threads' =
           [threads EXCEPT !.of = Thread(t,
               [NoThread EXCEPT
                   !.op = "import_rules",
                   !.args = <<file.members>>,
                   !.pos = 1,
                   !.pc = IF file.kind = "json" /\ Len(file.members) > 0
                          THEN "entry" ELSE "done",
                   !.out = IF file.kind = "absent"
                           THEN Raise("FileNotFoundError")
                           ELSE IF file.kind = "truncated"
                           THEN Raise("JSONDecodeError")
                           ELSE Return(<<>>)])]
    /\ UNCHANGED <<rules, today, writes, call, ret, file, memo>>

\* one pass of the loop of import_rules: the rule of the entry is built and
\* assigned, or building it raises
ThreadImportEntry(t) ==
    /\ threads.of[t].pc = "entry"
    /\ \E th \in {threads.of[t]} :
       \E data \in {th.args[1][th.pos][2]} :
          IF LoadError(data, 1) # "ok"
          THEN /\ threads' =
                      [threads EXCEPT !.of = Thread(t,
                          [th EXCEPT !.pc = "done",
                                     !.out = Raise(LoadError(data, 1))])]
               /\ UNCHANGED <<rules, today, writes, call, ret, file, memo>>
          ELSE \E heap \in {Assign(threads.objects, threads.ids,
                                   LoadRule(data))} :
               /\ threads' =
                      [objects |-> heap.objects, ids |-> heap.ids,
                       of |-> Thread(t,
                           [th EXCEPT !.pos = th.pos + 1,
                                      !.pc = IF th.pos = Len(th.args[1])
                                             THEN "done" ELSE "entry"])]
               /\ rules' = Held(heap.objects, heap.ids)
               /\ UNCHANGED <<today, writes, call, ret, file, memo>>

\* get_active_rules in a thread, `for rule in self.rules.values()`: the
\* iterator is made and notes the size of the dict
ThreadIterStart(t) ==
    /\ threads.of[t].op = "idle"
    /\ \E q \in ThreadQueries :
        /\ threads' =
               [threads EXCEPT !.of = Thread(t,
                   [NoThread EXCEPT !.op = "get_active_rules", !.args = q,
                                    !.size = Len(threads.ids), !.pos = 1,
                                    !.pc = "next"])]
        /\ UNCHANGED <<rules, today, writes, call, ret, file, memo>>

\* the thread's record after its iterator is asked for the next rule:
\* RuntimeError when the dict has changed size since the iterator was made;
\* past the last key the loop ends and the list is returned; else the rule
\* under the key is tested and its object appended when it passes
IterNext(th, objects, ids, day) ==
    IF Len(ids) # th.size
    THEN [th EXCEPT !.pc = "done", !.out = Raise("RuntimeError")]
    ELSE IF th.pos > Len(ids)
    THEN [th EXCEPT !.pc = "done", !.out = Return(Held(objects, th.acc))]
    ELSE IF RuleIsListed(objects[ids[th.pos]], th.args[1], th.args[2], day)
    THEN [th EXCEPT !.pos = th.pos + 1, !.acc = Append(th.acc, ids[th.pos])]
    ELSE [th EXCEPT !.pos = th.pos + 1]

\* one turn of the loop of get_active_rules in a thread
ThreadIterNext(t) ==
    /\ threads.of[t].pc = "next"
    /\ threads' =
           [threads EXCEPT !.of = Thread(t,
               IterNext(threads.of[t], threads.objects, threads.ids, today))]
    /\ UNCHANGED <<rules, today, writes, call, ret, file, memo>>

\* calculate_qst in a thread: one look at the rule under TVQ_Rate
ThreadCalculateQst(t) ==
    /\ threads.of[t].op = "idle"
    /\ \E amount \in {Dec(10000, -1)} :
        /\ threads' =
               [threads EXCEPT !.of = Thread(t,
                   [NoThread EXCEPT !.op = "calculate_qst",
                                    !.args = <<amount, FALSE>>,
                                    !.pc = "done",
                                    !.out = calculate_qst(rules, amount,
                                                          FALSE)])]
        /\ UNCHANGED <<rules, today, writes, call, ret, file, memo>>

\* the threads of the service, each making one call
NextThreads ==
    \/ \E t \in Writers : ThreadAddRule(t)
    \/ \E t \in Writers : ThreadUpdateLookup(t)
    \/ \E t \in Writers : ThreadUpdateValue(t)
    \/ \E t \in Writers : ThreadUpdateDate(t)
    \/ \E t \in Writers : ThreadImportLoad(t)
    \/ \E t \in Writers : ThreadImportEntry(t)
    \/ \E t \in Readers : ThreadIterStart(t)
    \/ \E t \in Readers : ThreadIterNext(t)
    \/ \E t \in Readers : ThreadCalculateQst(t)

\* overlapping calls on the global engine
SpecThreads == InitThreads /\ [][NextThreads]_vars

(***************************************************************************)
(* Properties of the rule store queries.                                   *)
(***************************************************************************)
InList(rule, list) == \E k \in 1..Len(list) : list[k] = rule
InStore(rule) == InList(rule, rules)
StoreRules == {rules[i] : i \in 1..Len(rules)}
IsQuery == call.op = "get_active_rules"
NotRequested(filter) == filter = NoStr \/ filter = ""
InWindow(rule, day) ==
    /\ rule.effective_date = NoDate \/ rule.effective_date <= day
    /\ rule.expiry_date = NoDate \/ day <= rule.expiry_date

\* the four conditions of the contract of get_active_rules(j, c)
MeetsContract(rule, j, c, day) ==
    /\ rule.is_active = TRUE
    /\ NotRequested(j) \/ rule.jurisdiction = j \/ rule.jurisdiction = "both"
    /\ NotRequested(c) \/ rule.category = c
    /\ InWindow(rule, day)

\* C1: get_active_rules(j, c) returns exactly the rules of the store that are
\* active, match the jurisdiction filter (equal or "both", or no filter),
\* match the category filter (or no filter) and whose date window holds the
\* current date; each such rule once, no other rule, an inactive rule never.
C1_ActiveRulesExact ==
    IsQuery =>
        LET j == call.args[1]
            c == call.args[2]
            out == ret.val
        IN /\ ret.status = "ok"
           /\ \A rule \in StoreRules :
                  InList(rule, out) <=> MeetsContract(rule, j, c, today)
           /\ \A k \in 1..Len(out) : InStore(out[k])
           /\ Len(out) = Cardinality({rule \in StoreRules :
                                          MeetsContract(rule, j, c, today)})
           /\ \A k \in 1..Len(out) : out[k].is_active

\* a query by jurisdiction and category that lists a rule while the store
\* holds an inactive rule with no dates that passes both filters
C1_Witness ==
    /\ IsQuery
    /\ call.args = <<"CA", "credit">>
    /\ Len(ret.val) > 0
    /\ \E rule \in StoreRules :
           /\ ~rule.is_active
           /\ rule.jurisdiction = "both" /\ rule.category = "credit"
           /\ rule.effective_date = NoDate /\ rule.expiry_date = NoDate
           /\ ~InList(rule, ret.val)

\* C2: a "both" rule that is active and inside its window is listed by
\* get_active_rules("QC") and by get_active_rules("CA"); a QC rule is never
\* listed for "CA" and a CA rule never for "QC".
C2_JurisdictionFilter ==
    (IsQuery /\ call.args[1] \in {"QC", "CA"}) =>
        LET j == call.args[1]
            other == IF j = "QC" THEN "CA" ELSE "QC"
        IN /\ NotRequested(call.args[2]) =>
                  \A rule \in StoreRules :
                      (/\ rule.jurisdiction = "both"
                       /\ rule.is_active
                       /\ InWindow(rule, today)) => InList(rule, ret.val)
           /\ \A k \in 1..Len(ret.val) : ret.val[k].jurisdiction # other

\* get_active_rules("CA") lists a "both" rule while the store holds an
\* active QC rule inside its window
C2_Witness ==
    /\ IsQuery
    /\ call.args[1] = "CA" /\ NotRequested(call.args[2])
    /\ \E k \in 1..Len(ret.val) : ret.val[k].jurisdiction = "both"
    /\ \E rule \in StoreRules :
           rule.jurisdiction = "QC" /\ rule.is_active /\ InWindow(rule, today)

\* C3: on each day the clock reaches, get_active_rules() leaves out an
\* active rule before its effective_date and after its expiry_date, and
\* lists it from effective_date to expiry_date, both days included; a rule
\* with neither date is listed on every day if it is active.
C3_DateWindow ==
    (IsQuery /\ NotRequested(call.args[1]) /\ NotRequested(call.args[2])) =>
        \A rule \in StoreRules :
            /\ (rule.effective_date # NoDate /\ today < rule.effective_date)
                   => ~InList(rule, ret.val)
            /\ (rule.expiry_date # NoDate /\ today > rule.expiry_date)
                   => ~InList(rule, ret.val)
            /\ (/\ rule.is_active
                /\ rule.effective_date # NoDate => rule.effective_date <= today
                /\ rule.expiry_date # NoDate => today <= rule.expiry_date)
                   => InList(rule, ret.val)

\* the clock has advanced to a day that is both the first and the last day
\* of a rule, and get_active_rules() lists that rule
C3_Witness ==
    /\ IsQuery
    /\ NotRequested(call.args[1]) /\ NotRequested(call.args[2])
    /\ today > FirstDay
    /\ \E rule \in StoreRules :
           /\ rule.effective_date = today /\ rule.expiry_date = today
           /\ InList(rule, ret.val)

(***************************************************************************)
(* Properties of the sales tax calculators.                                *)
(***************************************************************************)
IsTaxCall == call.op \in {"calculate_gst", "calculate_qst"}
IsCombinedCall == call.op = "calculate_combined_taxes"
RateRuleName == IF call.op = "calculate_gst" THEN "TPS_Rate" ELSE "TVQ_Rate"
HasRule(name) == \E rule \in StoreRules : rule.name = name
RuleNamed(name) == CHOOSE rule \in StoreRules : rule.name = name
Zero == Dec(0, 0)

\* C4: a zero-rated calculate_gst or calculate_qst returns tax_amount 0,
\* rate_applied 0 and net_amount = amount whatever the store holds, the rate
\* rule absent included.
C4_ZeroRated ==
    (IsTaxCall /\ call.args[2] = TRUE) =>
        /\ ret.status = "ok"
        /\ DecEq(ret.val.tax_amount, Zero)
        /\ IsNumber(ret.val.rate_applied)
        /\ DecEq(NumOf(ret.val.rate_applied), Zero)
        /\ ret.val.net_amount = call.args[1]

\* a zero-rated calculate_gst of a non-zero amount on a store that holds no
\* TPS_Rate rule
C4_Witness ==
    /\ call.op = "calculate_gst"
    /\ call.args[2] = TRUE
    /\ ~DecEq(call.args[1], Zero)
    /\ ~HasRule("TPS_Rate")
    /\ ret.status = "ok"

\* C5: every TaxCalculation returned by calculate_gst or calculate_qst has
\* base_amount = the amount passed, net_amount = base_amount + tax_amount
\* and, when not zero-rated, rate_applied = the value of the named rate
\* rule and tax_amount = amount * that value.
C5_NetIsBasePlusTax ==
    (IsTaxCall /\ ret.status = "ok") =>
        LET amount == call.args[1]
            calc == ret.val
        IN /\ calc.base_amount = amount
           /\ DecEq(calc.net_amount, DecAdd(calc.base_amount, calc.tax_amount))
           /\ call.args[2] = FALSE =>
                  /\ HasRule(RateRuleName)
                  /\ calc.rate_applied = RuleNamed(RateRuleName).value
                  /\ DecEq(calc.tax_amount,
                           DecMul(amount, NumOf(RuleNamed(RateRuleName).value)))

\* calculate_qst, not zero-rated, of a non-zero amount after the TVQ_Rate
\* rule has been given another value
C5_Witness ==
    /\ call.op = "calculate_qst"
    /\ call.args[2] = FALSE
    /\ ret.status = "ok"
    /\ ~DecEq(ret.val.tax_amount, Zero)
    /\ HasRule("TVQ_Rate")
    /\ RuleNamed("TVQ_Rate").value # PyFloat(9975, -5)

\* C6: calculate_combined_taxes(amount) returns total_tax = gst.tax_amount +
\* qst.tax_amount and total_amount = amount + total_tax; with the rates 0.05
\* and 0.09975 and the amount 1000.0 these are 50.00, 99.75, 149.75 and
\* 1149.75 exactly.
C6_CombinedAdditivity ==
    (IsCombinedCall /\ ret.status = "ok") =>
        LET amount == call.args[1]
            r == ret.val
        IN /\ DecEq(r.total_tax, DecAdd(r.gst.tax_amount, r.qst.tax_amount))
           /\ DecEq(r.total_amount, DecAdd(amount, r.total_tax))
           /\ (/\ call.args[2] = FALSE
               /\ amount = Dec(10000, -1)
               /\ RuleNamed("TPS_Rate").value = PyFloat(5, -2)
               /\ RuleNamed("TVQ_Rate").value = PyFloat(9975, -5)) =>
                  /\ DecEq(r.gst.tax_amount, Dec(5000, -2))
                  /\ DecEq(r.qst.tax_amount, Dec(9975, -2))
                  /\ DecEq(r.total_tax, Dec(14975, -2))
                  /\ DecEq(r.total_amount, Dec(114975, -2))

\* calculate_combined_taxes(Decimal('1000.0')) on the default rates
C6_Witness ==
    /\ IsCombinedCall
    /\ call.args = <<Dec(10000, -1), FALSE>>
    /\ ret.status = "ok"
    /\ RuleNamed("TPS_Rate").value = PyFloat(5, -2)
    /\ RuleNamed("TVQ_Rate").value = PyFloat(9975, -5)
    /\ DecEq(ret.val.total_amount, Dec(114975, -2))

\* C7: the gst and qst entries of calculate_combined_taxes(amount, z) are
\* the results of calculate_gst(amount, z) and calculate_qst(amount, z) on
\* the same base amount: neither tax is computed on the amount plus the
\* other tax.
C7_NotCascaded ==
    (IsCombinedCall /\ ret.status = "ok") =>
        LET amount == call.args[1]
            z == call.args[2]
            r == ret.val
        IN /\ r.gst = calculate_gst(rules, amount, z).val
           /\ r.qst = calculate_qst(rules, amount, z).val
           /\ r.gst.base_amount = amount
           /\ r.qst.base_amount = amount
           /\ ~z => /\ DecEq(r.gst.tax_amount,
                             DecMul(amount, NumOf(RuleNamed("TPS_Rate").value)))
                    /\ DecEq(r.qst.tax_amount,
                             DecMul(amount, NumOf(RuleNamed("TVQ_Rate").value)))

\* a combined calculation in which both taxes are non-zero, so that a tax
\* on the other tax would show
C7_Witness ==
    /\ IsCombinedCall
    /\ call.args[2] = FALSE
    /\ ret.status = "ok"
    /\ ~DecEq(ret.val.gst.tax_amount, Zero)
    /\ ~DecEq(ret.val.qst.tax_amount, Zero)

\* C8: a sales-tax calculation that is not zero-rated and whose rate rule
\* (TPS_Rate for calculate_gst, TVQ_Rate for calculate_qst) is absent from
\* the store fails with RuleNotFound.
C8_MissingRuleIsRuleNotFound ==
    (IsTaxCall /\ call.args[2] = FALSE /\ ~HasRule(RateRuleName)) =>
        ret.status = "RuleNotFound"

(***************************************************************************)
(* Properties of the condition matcher.                                    *)
(***************************************************************************)
IsMatch == call.op = "_check_conditions"
MatchData == call.args[1]
MatchItems == call.args[2].items
IsComparator(value) == StartsWith(value, ">") \/ StartsWith(value, "<")
Threshold(value) == ParseFloat(Tail(value.s))
\* a comparator whose remainder is not a number
Malformed(value) == IsComparator(value) /\ ~Threshold(value).ok
\* an int, float or Decimal; a bool is not a number in this sense
IsPlainNumber(v) == v.t \in {"int", "float", "Decimal"}

\* C9: for a constraint ">N" (resp. "<N") the condition is satisfied iff
\* the data value is a number strictly greater (resp. less) than N; a value
\* equal to N, or one that is not a number (a str, a bool, None), never
\* satisfies it.
C9_NumericComparators ==
    (/\ IsMatch
     /\ Len(MatchItems) = 1
     /\ IsComparator(MatchItems[1][2])
     /\ ~Malformed(MatchItems[1][2])) =>
        LET key == MatchItems[1][1]
            value == MatchItems[1][2]
            N == Threshold(value).num
        IN ret = Return(/\ key \in DOMAIN MatchData
                        /\ IsPlainNumber(MatchData[key])
                        /\ IF StartsWith(value, ">")
                           THEN DecLt(N, NumOf(MatchData[key]))
                           ELSE DecLt(NumOf(MatchData[key]), N))

\* whether the matcher counts v as satisfying a well-formed constraint:
\* a comparator asks for an int, float, Decimal or bool (True is 1 and
\* False is 0) strictly beyond the threshold, any other constraint for an
\* equal value
Satisfies(v, constraint) ==
    IF StartsWith(constraint, ">")
    THEN IsNumber(v) /\ DecLt(Threshold(constraint).num, NumOf(v))
    ELSE IF StartsWith(constraint, "<")
    THEN IsNumber(v) /\ DecLt(NumOf(v), Threshold(constraint).num)
    ELSE PyEq(v, constraint)

\* item i of the conditions: its field is in the record and its constraint
\* is well formed and satisfied
Passes(i) ==
    /\ MatchItems[i][1] \in DOMAIN MatchData
    /\ ~Malformed(MatchItems[i][2])
    /\ Satisfies(MatchData[MatchItems[i][1]], MatchItems[i][2])
AllPass == \A i \in 1..Len(MatchItems) : Passes(i)
\* item i is reached with its field present and its comparator unparseable
RaisesAt(i) ==
    /\ MatchItems[i][1] \in DOMAIN MatchData
    /\ Malformed(MatchItems[i][2])
    /\ \A k \in 1..(i - 1) : Passes(k)

\* item i has a field the record lacks, or a well-formed constraint that
\* the record's value does not satisfy
FailsAt(i) ==
    \/ MatchItems[i][1] \notin DOMAIN MatchData
    \/ /\ ~Malformed(MatchItems[i][2])
       /\ ~Satisfies(MatchData[MatchItems[i][1]], MatchItems[i][2])

IsDeductionCall == call.op = "apply_deductions"
IsCreditCall == call.op = "apply_credits"
IsApplyCall == IsDeductionCall \/ IsCreditCall
AppliedCategory == IF IsDeductionCall THEN "deduction" ELSE "credit"
\* the base and the items handed to apply_deductions / apply_credits
AppliedBase == call.args[1]
AppliedItems == call.args[2]
\* the rules of the category that the contract of get_active_rules lists
\* on the current date, in store order
ActiveOfCategory(category) ==
    SelectSeq(rules, LAMBDA rule : MeetsContract(rule, NoStr, category, today))
\* the pairs (item i, rule k) whose conditions the item satisfies
MatchingPairs(items, rule_list) ==
    {p \in (1..Len(items)) \X (1..Len(rule_list)) :
        _check_conditions(items[p[1]], rule_list[p[2]].conditions)
            = Return(TRUE)}
\* item-major order: by item, then by rule
NotAfter(p, q) == p[1] < q[1] \/ (p[1] = q[1] /\ p[2] <= q[2])
\* the place of the pair p among the pairs P in item-major order
Rank(p, P) == Cardinality({q \in P : NotAfter(q, p)})

\* C11 as stated: each deduction record of apply_deductions is the matching
\* item's own expense amount multiplied by rule.value.
C11_DeductionOnExpenseAmount ==
    (IsDeductionCall /\ ret.status = "ok") =>
        LET rule_list == ActiveOfCategory("deduction")
            P == MatchingPairs(AppliedItems, rule_list)
        IN /\ Len(ret.val) = Cardinality(P)
           /\ \A p \in P :
                  DecEq(ret.val[Rank(p, P)].amount,
                        DecMul(NumOf(AppliedItems[p[1]]["amount"]),
                               NumOf(rule_list[p[2]].value)))

\* C12 as stated: on both paths that compute credits the amount of a credit
\* record is the tax amount multiplied by rule.value, and never the expense
\* amount multiplied by rule.value.
C12_CreditOnTaxAmount ==
    /\ (IsCreditCall /\ ret.status = "ok") =>
           \A n \in 1..Len(ret.val) :
               DecEq(ret.val[n].amount,
                     DecMul(AppliedBase, NumOf(ret.val[n].rate)))
    /\ (call.op = "_calculate_credits" /\ ret.status = "ok") =>
           \A n \in 1..Len(ret.val) :
               ~DecEq(NumOf(ret.val[n].expense_amount), Zero) =>
                   ~DecEq(NumOf(ret.val[n].credit_amount),
                          DecMul(NumOf(ret.val[n].expense_amount),
                                 NumOf(ret.val[n].rate)))

\* C13: apply_deductions and apply_credits return one record for every pair
\* (item, active rule of the category) whose conditions the item satisfies
\* and none for any other pair, in item-major order; each record names its
\* rule and carries the full base multiplied by rule.value, whatever the
\* other records are.
C13_OneRecordPerMatchingPair ==
    IsApplyCall =>
        LET rule_list == ActiveOfCategory(AppliedCategory)
            P == MatchingPairs(AppliedItems, rule_list)
        IN /\ ret.status = "ok"
           /\ Len(ret.val) = Cardinality(P)
           /\ \A p \in P :
                  LET record == ret.val[Rank(p, P)]
                      rule == rule_list[p[2]]
                  IN /\ record.rule = rule.name
                     /\ record.description = rule.description
                     /\ record.rate = rule.value
                     /\ DecEq(record.amount,
                              DecMul(AppliedBase, NumOf(rule.value)))

\* apply_deductions of two expenses returns three records: two rules match
\* the first expense and one of them matches the second expense as well
C13_Witness ==
    /\ IsDeductionCall
    /\ Len(AppliedItems) = 2
    /\ ret.status = "ok"
    /\ Len(ret.val) = 3
    /\ ret.val[1].rule # ret.val[2].rule
    /\ ret.val[2].rule = ret.val[3].rule
    /\ ~DecEq(ret.val[3].amount, Zero)

(***************************************************************************)
(* Properties of the writes to the rule store.                             *)
(***************************************************************************)
StoreNames == {rules[i].name : i \in 1..Len(rules)}
UniqueNames ==
    \A i, k \in 1..Len(rules) : rules[i].name = rules[k].name => i = k

\* what an add_rule(rule) step does to the store
AddRuleEffect ==
    LET rule == call'.args[1] IN
    /\ ret'.status = "ok"
    /\ get_rule(rules', rule.name) = rule
    /\ {rules'[i].name : i \in 1..Len(rules')} = StoreNames \cup {rule.name}
    /\ Len(rules') = Cardinality(StoreNames \cup {rule.name})
    /\ \A i \in 1..Len(rules) :
           rules[i].name # rule.name => rules'[i] = rules[i]

\* C14: the store holds at most one rule per name; each add_rule(rule)
\* leaves get_rule(rule.name) equal to the rule passed, field by field
\* (an earlier rule of that name is wholly replaced), never fails and
\* leaves every rule of another name as it was; get_rule of a name the
\* store does not hold returns None.
C14_LastWriteWins ==
    /\ [](/\ UniqueNames
          /\ call.op = "get_rule" =>
                 /\ ret.status = "ok"
                 /\ IF HasRule(call.args[1])
                    THEN ret.val = RuleNamed(call.args[1])
                    ELSE ret.val.name = NoStr)
    /\ [][call'.op = "add_rule" => AddRuleEffect]_vars

\* add_rule of a TPS_Rate rule with another jurisdiction and an expiry date
\* has taken the place of the default TPS_Rate: the store has not grown and
\* get_rule gives the rule passed
C14_Witness ==
    /\ call.op = "add_rule"
    /\ call.args[1].name = "TPS_Rate"
    /\ call.args[1].jurisdiction = "QC"
    /\ Len(rules) = Len(load_default_rules)
    /\ get_rule(rules, "TPS_Rate") = call.args[1]
    /\ get_rule(rules, "TPS_Rate") # DefaultRuleList[1]

\* what an update_rule(rule_name, new_value, effective_date) step does
UpdateRuleEffect ==
    LET rule_name == call'.args[1]
        new_value == call'.args[2]
        effective_date == call'.args[3]
    IN /\ ret'.status = "ok"
       /\ Len(rules') = Len(rules)
       /\ ~HasRule(rule_name) => rules' = rules
       /\ \A i \in 1..Len(rules) :
              IF rules[i].name # rule_name THEN rules'[i] = rules[i]
              ELSE /\ rules'[i].value = new_value
                   /\ rules'[i].effective_date =
                          IF effective_date # NoDate THEN effective_date
                          ELSE rules[i].effective_date
                   /\ rules'[i].name = rules[i].name
                   /\ rules'[i].description = rules[i].description
                   /\ rules'[i].jurisdiction = rules[i].jurisdiction
                   /\ rules'[i].category = rules[i].category
                   /\ rules'[i].conditions = rules[i].conditions
                   /\ rules'[i].expiry_date = rules[i].expiry_date
                   /\ rules'[i].is_active = rules[i].is_active

\* C15: update_rule on a name the store does not hold changes nothing and
\* raises nothing; on a name it holds, that rule's value becomes new_value,
\* its effective_date becomes the date given if one is given, and its other
\* fields and every other rule stay as they were.
C15_UpdateRuleFrame == [][call'.op = "update_rule" => UpdateRuleEffect]_vars

\* update_rule("TVQ_Rate", 0.1, date) has set the value and the date of the
\* rule, whose category and jurisdiction are those of the default rule
C15_Witness ==
    /\ call.op = "update_rule"
    /\ call.args = <<"TVQ_Rate", PyFloat(1, -1), FirstDay + 2>>
    /\ RuleNamed("TVQ_Rate").value = PyFloat(1, -1)
    /\ RuleNamed("TVQ_Rate").effective_date = FirstDay + 2
    /\ RuleNamed("TVQ_Rate").jurisdiction = "QC"

(***************************************************************************)
(* Properties of the rules file.                                           *)
(***************************************************************************)
IsExport == call.op = "export_rules"
IsImport == call.op = "import_rules"
FileNames == {file.members[i][1] : i \in 1..Len(file.members)}
\* the nine attributes of a TaxRule, one by one
SameRule(a, b) ==
    /\ a.name = b.name /\ a.description = b.description
    /\ a.jurisdiction = b.jurisdiction /\ a.category = b.category
    /\ a.value = b.value /\ a.conditions = b.conditions
    /\ a.effective_date = b.effective_date /\ a.expiry_date = b.expiry_date
    /\ a.is_active = b.is_active
\* importing f into the store rs succeeds and gives the rules of `expected`
\* under the same names
ImportGives(rs, f, expected) ==
    LET back == import_rules(rs, f) IN
    /\ back.out.status = "ok"
    /\ Len(back.rules) = Len(expected)
    /\ \A i \in 1..Len(expected) :
           /\ get_rule(back.rules, expected[i].name).name # NoStr
           /\ SameRule(get_rule(back.rules, expected[i].name), expected[i])

\* C16 as stated: whatever store add_rule and update_rule have built,
\* export_rules writes a file from which import_rules, into the same store
\* or into an empty one, gives the same names and for each name the same
\* nine attributes.
C16_RoundTrip ==
    IsExport =>
        /\ ret.status = "ok"
        /\ ImportGives(rules, file, rules)
        /\ ImportGives(<<>>, file, rules)

\* the round trip of the stores whose values json.dump can write: the
\* part of C16 that holds
RoundTripOfJsonValues ==
    (IsExport /\ \A i \in 1..Len(rules) : RuleIsSerializable(rules[i])) =>
        /\ ret.status = "ok"
        /\ ImportGives(rules, file, rules)
        /\ ImportGives(<<>>, file, rules)

\* C17 as stated: after a successful import_rules the store holds exactly
\* the rules of the file; a rule the store held before and the file does
\* not name is gone.
C17_ImportReplacesStore ==
    (IsImport /\ ret.status = "ok") =>
        /\ StoreNames = FileNames
        /\ Len(rules) = Len(file.members)
        /\ \A i \in 1..Len(file.members) :
               SameRule(get_rule(rules, file.members[i][1]),
                        LoadRule(file.members[i][2]))

(***************************************************************************)
(* Properties of the aggregation.                                          *)
(***************************************************************************)
IsObligationsCall == call.op = "_determine_obligations"
IsSummaryCall == call.op = "get_tax_summary"
HasType(transaction, chars) ==
    "type" \in DOMAIN transaction /\ transaction["type"] = PyStr(chars)
AmountOf(transaction) ==
    DecimalOfStr(Get(transaction, "amount", PyInt(0))).num
\* the GST ("gst") or the QST ("qst") on one transaction at the store's rate
TaxOn(kind, transaction) ==
    IF kind = "gst"
    THEN calculate_gst(rules, AmountOf(transaction), FALSE).val.tax_amount
    ELSE calculate_qst(rules, AmountOf(transaction), FALSE).val.tax_amount
\* the sum of that tax over a list of transactions
RECURSIVE TaxTotal(_, _, _)
TaxTotal(kind, list, i) ==
    IF i > Len(list) THEN Zero
    ELSE DecAdd(TaxOn(kind, list[i]), TaxTotal(kind, list, i + 1))
Revenues(transactions) ==
    SelectSeq(transactions, LAMBDA t : HasType(t, Chars_revenue))
Expenses(transactions) ==
    SelectSeq(transactions, LAMBDA t : HasType(t, Chars_expense))
\* collected on the revenue transactions minus paid on the expense ones
Remittance(kind, transactions) ==
    DecSub(TaxTotal(kind, Revenues(transactions), 1),
           TaxTotal(kind, Expenses(transactions), 1))
\* the records of the given type in a list of obligations
OfType(obligations, type) ==
    SelectSeq(obligations, LAMBDA o : o.type = type)
\* the obligation list reports the remittance r of a tax iff r is not zero,
\* once, with r as amount, the jurisdiction j and the priority "high"
Reports(obligations, type, r, j) ==
    LET records == OfType(obligations, type) IN
    IF DecEq(r, Zero) THEN Len(records) = 0
    ELSE /\ Len(records) = 1
         /\ IsNumber(records[1].amount)
         /\ DecEq(NumOf(records[1].amount), r)
         /\ records[1].jurisdiction = j
         /\ records[1].priority = "high"

\* C18: the GST (QST) remittance the analyzer computes is the tax collected
\* on the revenue transactions minus the tax paid on the expense ones, and
\* the obligations hold one gst_remittance (qst_remittance) record with
\* that amount, jurisdiction CA (QC) and priority "high" iff it is not
\* zero, negative included; get_tax_summary's remittances are its collected
\* minus its paid totals.
C18_RemittanceObligations ==
    /\ (IsObligationsCall /\ ret.status = "ok") =>
           LET transactions == call.args[1]
               gst == Remittance("gst", transactions)
               qst == Remittance("qst", transactions)
           IN /\ DecEq(NumOf(ret.val.gst_analysis.remittance), gst)
              /\ DecEq(NumOf(ret.val.qst_analysis.remittance), qst)
              /\ Reports(ret.val.obligations, "gst_remittance", gst, "CA")
              /\ Reports(ret.val.obligations, "qst_remittance", qst, "QC")
    /\ (IsSummaryCall /\ ret.status = "ok") =>
           /\ DecEq(ret.val.gst_remittance,
                    DecSub(ret.val.gst_collected, ret.val.gst_paid))
           /\ DecEq(ret.val.qst_remittance,
                    DecSub(ret.val.qst_collected, ret.val.qst_paid))
           /\ DecEq(ret.val.gst_paid,
                    TaxTotal("gst", Expenses(call.args[1]), 1))
           /\ DecEq(ret.val.qst_paid,
                    TaxTotal("qst", Expenses(call.args[1]), 1))

\* an expense alone: both remittances are negative and both are reported,
\* after the QST rate has been updated
C18_Witness ==
    /\ IsObligationsCall
    /\ ret.status = "ok"
    /\ Len(Revenues(call.args[1])) = 0
    /\ DecLt(NumOf(ret.val.gst_analysis.remittance), Zero)
    /\ DecLt(NumOf(ret.val.qst_analysis.remittance), Zero)
    /\ Len(OfType(ret.val.obligations, "gst_remittance")) = 1
    /\ Len(OfType(ret.val.obligations, "qst_remittance")) = 1
    /\ RuleNamed("TVQ_Rate").value = PyFloat(1, -1)

(***************************************************************************)
(* Properties of the queries and calculations as a whole.                  *)
(***************************************************************************)
\* the call just made is the call the caller kept the result of, made on
\* the same store content and the same date
SameCallAsKept ==
    /\ memo.kept
    /\ ~Idle
    /\ call = memo.call
    /\ rules = memo.rules
    /\ today = memo.today

C20_JurisdictionEchoesRule ==
    (IsTaxCall /\ ret.status = "ok" /\ HasRule(RateRuleName)) =>
        ret.val.jurisdiction = RuleNamed(RateRuleName).jurisdiction


(***************************************************************************)
(* Properties of the aggregators on amounts that are missing or invalid.   *)
(***************************************************************************)
\* the transaction has no amount, or one that is not numeric
LacksAmount(transaction) == "amount" \notin DOMAIN transaction
\* an int, a float, a Decimal or a text of digits is numeric
IsNumeric(v) == IsPlainNumber(v) \/ (v.t = "str" /\ ParseFloat(v.s).ok)
BadAmount(transaction) ==
    "amount" \in DOMAIN transaction /\ ~IsNumeric(transaction["amount"])
HasSuch(transactions, P(_)) ==
    \E i \in 1..Len(transactions) : P(transactions[i])

\* C21: get_tax_summary, _analyze_sales_taxes and _analyze_income_tax never
\* fold a transaction whose amount is missing or invalid into their totals
\* as a zero: on a list holding such a transaction they fail with
\* InvalidAmount.
C21_NoSilentZero ==
    (/\ IsSummaryCall \/ IsObligationsCall
     /\ \/ HasSuch(call.args[1], LacksAmount)
        \/ HasSuch(call.args[1], BadAmount)) =>
        ret.status = "InvalidAmount"


(***************************************************************************)
(* Unparseable comparators.                                                *)
(***************************************************************************)
\* C22: whenever the conditions hold a constraint beginning with ">" or "<"
\* whose remainder is not a number, _check_conditions fails with
\* MalformedCondition, whatever the record holds and whatever the other
\* constraints are; it neither matches nor declines silently.
C22_MalformedConditionRaised ==
    (IsMatch /\ \E i \in 1..Len(MatchItems) : Malformed(MatchItems[i][2])) =>
        ret.status = "MalformedCondition"


(***************************************************************************)
(* Representation of the monetary quantities.                              *)
(***************************************************************************)
\* the quantity is a Decimal, not a binary float
HeldAsDecimal(v) == DOMAIN v = {"c", "e"} \/ v.t = "Decimal"

\* C23: every monetary quantity get_tax_summary and the analyzer return
\* (revenue, expenses, net income, collected, paid and remittance amounts,
\* income tax, obligation amounts) is held as a Decimal; none has been
\* converted to a binary float.
C23_MoneyIsDecimal ==
    /\ (IsSummaryCall /\ ret.status = "ok") =>
           \A k \in DOMAIN ret.val : HeldAsDecimal(ret.val[k])
    /\ (IsObligationsCall /\ ret.status = "ok") =>
           /\ \A k \in {"collected", "paid", "remittance", "taxable_revenue"} :
                  /\ HeldAsDecimal(ret.val.gst_analysis[k])
                  /\ HeldAsDecimal(ret.val.qst_analysis[k])
           /\ \A k \in {"total_revenue", "total_expenses", "net_income",
                        "federal_tax", "provincial_tax", "total_tax"} :
                  HeldAsDecimal(ret.val.income_tax_analysis[k])
           /\ \A i \in 1..Len(ret.val.obligations) :
                  HeldAsDecimal(ret.val.obligations[i].amount)


\* C24: on a list holding a transaction whose amount is not numeric,
\* get_tax_summary raises and returns no summary, partial or not, wherever
\* the transaction stands in the list and whatever its type is (revenue,
\* expense, transfer or none).
C24_MalformedAmountAborts ==
    (IsSummaryCall /\ HasSuch(call.args[1], BadAmount)) =>
        ret.status # "ok" /\ ret.val = <<>>

\* a revenue of 1000.0 followed by a transfer whose amount is "abc": the
\* transfer would not be counted, yet the call raises
C24_Witness ==
    /\ IsSummaryCall
    /\ Len(call.args[1]) = 2
    /\ HasType(call.args[1][1], Chars_revenue)
    /\ ~BadAmount(call.args[1][1])
    /\ HasType(call.args[1][2], Chars_transfer)
    /\ BadAmount(call.args[1][2])
    /\ ret = Raise("InvalidOperation")


(***************************************************************************)
(* get_tax_summary against _analyze_sales_taxes.                           *)
(***************************************************************************)
Typed(transaction) == "type" \in DOMAIN transaction
AllTyped(transactions) ==
    \A i \in 1..Len(transactions) : Typed(transactions[i])
\* the list with the type "revenue" given to the transactions without one
AsRevenue(transactions) ==
    [i \in 1..Len(transactions) |->
        IF Typed(transactions[i]) THEN transactions[i]
        ELSE transactions[i] @@ ("type" :> PyStr(Chars_revenue))]
\* the totals of the analyzer are the floats of the totals of the summary
SameTotals(summary, gst, qst) ==
    /\ gst.collected = FloatOfDecimal(summary.gst_collected)
    /\ gst.paid = FloatOfDecimal(summary.gst_paid)
    /\ gst.remittance = FloatOfDecimal(summary.gst_remittance)
    /\ qst.collected = FloatOfDecimal(summary.qst_collected)
    /\ qst.paid = FloatOfDecimal(summary.qst_paid)
    /\ qst.remittance = FloatOfDecimal(summary.qst_remittance)
\* the outcome of the summary is the outcome of the analysis: the same
\* exception, or the same totals
SameOutcome(summary, analysis) ==
    IF analysis.status = "ok"
    THEN /\ summary.status = "ok"
         /\ SameTotals(summary.val, analysis.val.gst_analysis,
                       analysis.val.qst_analysis)
    ELSE summary = analysis

\* C30: on a list whose transactions all carry a type, get_tax_summary and
\* _analyze_sales_taxes compute the same GST and QST collected, paid and
\* remittance totals, a type other than revenue or expense contributing to
\* neither; on any list the analyzer's totals are those of the summary of
\* the typed transactions with the untyped ones counted as revenue by the
\* summary only.
C30_AggregatorsAgree ==
    IsObligationsCall =>
        LET summary == get_tax_summary(rules, call.args[1])
            sales == _analyze_sales_taxes(rules, AsRevenue(call.args[1]))
        IN /\ AllTyped(call.args[1]) => SameOutcome(summary, ret)
           /\ SameOutcome(summary,
                  IF sales.status # "ok" THEN sales
                  ELSE Return([gst_analysis |-> sales.val.gst,
                               qst_analysis |-> sales.val.qst]))

\* a revenue and an expense, both typed: the analysis returns totals that
\* are not zero
C30_Witness ==
    /\ IsObligationsCall
    /\ ret.status = "ok"
    /\ AllTyped(call.args[1])
    /\ Len(Revenues(call.args[1])) = 1
    /\ Len(Expenses(call.args[1])) = 1
    /\ DecLt(Zero, NumOf(ret.val.gst_analysis.collected))
    /\ DecLt(Zero, NumOf(ret.val.qst_analysis.paid))


(***************************************************************************)
(* What a sales tax calculation reads from the store.                      *)
(***************************************************************************)
\* the stores one or two writes away from the constructor's
OneWriteStores ==
    {add_rule(load_default_rules, rule) : rule \in RuleInputs} \cup
    {update_rule(load_default_rules, u[1], u[2], u[3]) : u \in UpdateInputs}
OtherStores ==
    {load_default_rules} \cup OneWriteStores \cup
    {add_rule(rs, rule) : rs \in OneWriteStores, rule \in RuleInputs}
\* the calculation of the call, made on another store
OnStore(rs) ==
    IF call.op = "calculate_gst"
    THEN calculate_gst(rs, call.args[1], call.args[2])
    ELSE calculate_qst(rs, call.args[1], call.args[2])
SameAmounts(a, b) ==
    /\ a.status = b.status
    /\ a.status = "ok" =>
           /\ a.val.tax_amount = b.val.tax_amount
           /\ a.val.rate_applied = b.val.rate_applied
           /\ a.val.net_amount = b.val.net_amount
Listed(name) ==
    \E k \in 1..Len(get_active_rules(rules, NoStr, NoStr, today)) :
        get_active_rules(rules, NoStr, NoStr, today)[k].name = name

\* C27: a calculate_gst (calculate_qst) that is not zero-rated gives, on
\* two stores whose TPS_Rate (TVQ_Rate) rules hold the same value, the same
\* tax_amount, rate_applied and net_amount, whatever else differs between
\* the stores; the rate it applies is the value the rule holds, whether
\* get_active_rules lists the rule on that day or not.
C27_RateValueOnly ==
    (IsTaxCall /\ call.args[2] = FALSE /\ HasRule(RateRuleName)) =>
        /\ \A other \in OtherStores :
               get_rule(other, RateRuleName).value =
                   RuleNamed(RateRuleName).value
               => SameAmounts(ret, OnStore(other))
        /\ ret.status = "ok" =>
               ret.val.rate_applied = RuleNamed(RateRuleName).value

\* TPS_Rate has been replaced by a rule of jurisdiction QC that expired the
\* day before; another store holds the same rate 0.06 in the constructor's
\* rule (jurisdiction CA, no expiry); the tax is computed at 0.06
C27_Witness ==
    /\ call.op = "calculate_gst"
    /\ call.args[2] = FALSE
    /\ ret.status = "ok"
    /\ RuleNamed("TPS_Rate").jurisdiction = "QC"
    /\ ~Listed("TPS_Rate")
    /\ ret.val.rate_applied = PyFloat(6, -2)
    /\ ~DecEq(ret.val.tax_amount, Zero)
    /\ \E other \in OtherStores :
           /\ get_rule(other, "TPS_Rate").value = PyFloat(6, -2)
           /\ get_rule(other, "TPS_Rate").jurisdiction = "CA"
           /\ get_rule(other, "TPS_Rate").expiry_date = NoDate


(***************************************************************************)
(* A failing import.                                                       *)
(***************************************************************************)
\* the entry has the nine fields and its dates, when given, are dates
Buildable(data) ==
    /\ \A k \in 1..Len(EntryFields) : EntryFields[k] \in DOMAIN data
    /\ \A d \in {"effective_date", "expiry_date"} :
           data[d].j = "string" => IsoOk(data[d].iso)
\* the first entry of the file that cannot be built, or one past the last
FirstBad(members) ==
    IF \A i \in 1..Len(members) : Buildable(members[i][2])
    THEN Len(members) + 1
    ELSE CHOOSE k \in 1..Len(members) :
             /\ ~Buildable(members[k][2])
             /\ \A i \in 1..(k - 1) : Buildable(members[i][2])
NamesBefore(members, k) == {members[i][1] : i \in 1..(k - 1)}
\* the place of the rule of that name in the order of the store
PlaceOf(rs, name) == CHOOSE p \in 1..Len(rs) : rs[p].name = name
\* what one import_rules call does to the store
ImportEffect ==
    IF file.kind # "json"
    THEN /\ rules' = rules
         /\ ret'.status = IF file.kind = "absent" THEN "FileNotFoundError"
                          ELSE "JSONDecodeError"
    ELSE LET members == file.members
             k == FirstBad(members)
         IN /\ ret'.status = "ok" <=> k > Len(members)
            /\ \A i \in 1..(k - 1) :
                   get_rule(rules', members[i][1]) = LoadRule(members[i][2])
            /\ \A name \in (StoreNames \cup FileNames) \
                               NamesBefore(members, k) :
                   get_rule(rules', name) = get_rule(rules, name)
            /\ Len(rules') =
                   Cardinality(StoreNames \cup NamesBefore(members, k))
            /\ \A i, j \in 1..(k - 1) :
                   (i < j /\ members[i][1] \notin StoreNames
                          /\ members[j][1] \notin StoreNames) =>
                       PlaceOf(rules', members[i][1]) <
                           PlaceOf(rules', members[j][1])

\* C28: an import_rules whose file cannot be opened or is not JSON leaves
\* the store as it was; one whose k-th entry cannot be built (a missing
\* field, a date that is not one) raises with the entries before k, in
\* file order, written to the store and left there, and with no entry
\* from k on imported.
C28_FailedImportKeepsPrefix ==
    [][call'.op = "import_rules" => ImportEffect]_vars

\* no add_rule or update_rule was made; the import raised KeyError on the
\* second entry of the file: the first one, Carbon_Rebate, is in the store
\* and the third one, TVQ_Rate at 0.1, is not
C28_Witness ==
    /\ IsImport
    /\ writes = 0
    /\ ret = Raise("KeyError")
    /\ Len(file.members) = 3
    /\ file.members[1][1] = "Carbon_Rebate"
    /\ HasRule("Carbon_Rebate")
    /\ file.members[3][1] = "TVQ_Rate"
    /\ RuleNamed("TVQ_Rate").value = PyFloat(9975, -5)


(***************************************************************************)
(* The names of the store over time.                                       *)
(***************************************************************************)
\* C29: from the nine rules of the constructor on, no add_rule,
\* update_rule, import_rules or export_rules takes a name out of the
\* store: every step keeps the names there were, TPS_Rate and TVQ_Rate are
\* in the store in every state, and calculate_gst never fails for want of
\* its rate rule.
C29_NamesNeverShrink ==
    /\ [](/\ Cardinality(StoreNames) >= 9
          /\ HasRule("TPS_Rate") /\ HasRule("TVQ_Rate")
          /\ IsTaxCall => ret.status # "AttributeError")
    /\ [][StoreNames \subseteq {rules'[i].name : i \in 1..Len(rules')}]_vars

\* an import has failed after add_rule and the import itself had each
\* brought a new name: eleven names
C29_Witness ==
    /\ IsImport
    /\ ret.status \notin {"ok", "FileNotFoundError", "JSONDecodeError"}
    /\ writes > 0
    /\ Cardinality(StoreNames) = 11


(***************************************************************************)
(* Properties of overlapping calls.                                        *)
(***************************************************************************)
\* the store after the write of a thread made whole on store rs
WholeWrite(th, rs) ==
    IF th.op = "add_rule" THEN add_rule(rs, th.args[1])
    ELSE IF th.op = "update_rule"
    THEN update_rule(rs, th.args[1], th.args[2], th.args[3])
    ELSE IF th.op = "import_rules" THEN ImportLoop(rs, th.args[1], 1).rules
    ELSE rs
\* the stores between whole writes: the constructor's store with none, one
\* or both of the writers' calls made on it, in either order
SerialStores ==
    {load_default_rules,
     WholeWrite(threads.of["w1"], load_default_rules),
     WholeWrite(threads.of["w2"], load_default_rules),
     WholeWrite(threads.of["w2"],
                WholeWrite(threads.of["w1"], load_default_rules)),
     WholeWrite(threads.of["w1"],
                WholeWrite(threads.of["w2"], load_default_rules))}
\* what the read of a thread gives on store rs
WholeRead(th, rs) ==
    IF th.op = "get_active_rules"
    THEN Return(get_active_rules(rs, th.args[1], th.args[2], today))
    ELSE calculate_qst(rs, th.args[1], th.args[2])
\* the reader has finished its call
ReaderDone(t) == threads.of[t].op # "idle" /\ threads.of[t].pc = "done"

\* C25: a read that overlaps writes on the global engine gives what it
\* would give on the store between whole writes: never a half-imported
\* file, never a rule with its new value and its old effective_date, and
\* the iteration never fails because a rule was inserted meanwhile
C25_ReadersSeeWholeWrites ==
    \A t \in Readers :
        ReaderDone(t) =>
            \E rs \in SerialStores :
                threads.of[t].out = WholeRead(threads.of[t], rs)

\* the rule name a thread's add_rule or update_rule writes
WrittenName(th) ==
    IF th.op = "add_rule" THEN th.args[1].name
    ELSE IF th.op = "update_rule" THEN th.args[1]
    ELSE NoStr
\* both writers have finished a write of one rule under the same name
SameNameWritesDone ==
    /\ \A t \in Writers :
        /\ threads.of[t].op \in {"add_rule", "update_rule"}
        /\ threads.of[t].pc = "done"
    /\ WrittenName(threads.of["w1"]) = WrittenName(threads.of["w2"])

\* C26: after two overlapping writes of the same rule name have both
\* completed (no other write having been made), the rule under the name is
\* the one left by the two writes made whole, one after the other in one of
\* the two orders
C26_LastWriterWins ==
    SameNameWritesDone =>
        get_rule(rules, WrittenName(threads.of["w1"])) \in
            {get_rule(WholeWrite(threads.of["w2"],
                                 WholeWrite(threads.of["w1"],
                                            load_default_rules)),
                      WrittenName(threads.of["w1"])),
             get_rule(WholeWrite(threads.of["w1"],
                                 WholeWrite(threads.of["w2"],
                                            load_default_rules)),
                      WrittenName(threads.of["w1"]))}

=============================================================================
